---- MODULE Spec2Model ----
(***************************************************************************)
(* A model of the Canny image-transform engine (src/src/rgba.rs,           *)
(* src/src/cpu.rs, src/src/pipeline.rs).                                   *)
(*                                                                         *)
(* f64 channel values are modelled bit for bit: a value is                 *)
(* <<sign, exp, hi, lo>> with sign in {-1, 0, 1} and the 53-bit mantissa   *)
(* hi * 2^28 + lo in [2^52, 2^53), standing for sign * mantissa * 2^exp;   *)
(* every operation rounds to nearest, ties to even, as the hardware does,  *)
(* overflows to an infinity and underflows through the subnormals (exp     *)
(* -1074, mantissa below 2^52) to 0.0.  The infinities and NaN are values  *)
(* of their own; the sign of zero is not kept.  An Image is, as in the     *)
(* source, a sequence of columns (Vec<Vec<Rgba>>), indexed from 0 through  *)
(* the operator index.  A CpuPipeline is the sequence of its recorded      *)
(* closures; a closure is a record naming the builder method that          *)
(* committed it together with the values it captured.                      *)
(***************************************************************************)
EXTENDS Integers, Sequences, FiniteSets

(***************************************************************************)
(* f64 arithmetic (IEEE 754 binary64, round to nearest, ties to even)      *)
(*                                                                         *)
(* The integers of the model checker are 32 bits wide, so the 53-bit       *)
(* mantissa is kept in two limbs, hi of 25 bits and lo of 28 bits, and the *)
(* operations work on limbs and on digits of 14 bits. Every operation      *)
(* first computes its result to 56 bits, the last of them standing for     *)
(* every bit below it, and round_pack rounds that to the mantissa.         *)
(***************************************************************************)
\* the mantissa's low limb holds 28 bits
Limb == 2^28

\* a digit of a product or a quotient holds 14 bits
Digit == 2^14

iabs(n) == IF n < 0 THEN -n ELSE n

RECURSIVE bit_length(_)
bit_length(n) == IF n = 0 THEN 0 ELSE 1 + bit_length(n \div 2)

\* 0.0 (the sign of a zero is not kept)
zero == <<0, 0, 0, 0>>

\* +inf or -inf
infinity(s) == <<s, 0, 0, 1>>

\* NaN
nan == <<0, 0, 0, 2>>

\* 0.0, an infinity or NaN: every other value with exp = 0 has the top bit
\* of hi set
is_special(p) == p[2] = 0 /\ p[3] = 0

is_nan(p) == is_special(p) /\ p[4] = 2

is_infinite(p) == is_special(p) /\ p[4] = 1

\* the exponent of the last of the 53 bits of a mantissa: of the least
\* normal value, 2^-1022, which the subnormals share, and of the greatest
\* finite value, (2 - 2^-52) * 2^1023
MinExp == -1022 - 52

MaxExp == 1023 - 52

\* the two-limb natural h * 2^28 + l shifted right by d bits, with whether a
\* one was shifted out
shr(h, l, d) ==
    IF d < 28
    THEN <<h \div 2^d, l \div 2^d + (h % 2^d) * 2^(28 - d), l % 2^d # 0>>
    ELSE IF d < 58
    THEN <<0, h \div 2^(d - 28), h % 2^(d - 28) # 0 \/ l # 0>>
    ELSE <<0, 0, h # 0 \/ l # 0>>

\* the two-limb natural h * 2^28 + l shifted left by z bits
shl(h, l, z) ==
    IF z < 28
    THEN <<h * 2^z + l \div 2^(28 - z), (l % 2^(28 - z)) * 2^z>>
    ELSE <<l * 2^(z - 28), 0>>

\* the lowest bit stands for every bit that was lost below it
sticky(l, lost) == IF lost /\ l % 2 = 0 THEN l + 1 ELSE l

\* the mantissa of p with three more bits below it, as two limbs of 28 bits
widen(p) == <<p[3] * 8 + p[4] \div 2^25, (p[4] % 2^25) * 8>>

\* s * (mh * 2^28 + ml) * 2^ex, an infinity when it is beyond the greatest
\* finite value
finite(s, ex, mh, ml) == IF ex > MaxExp THEN infinity(s) ELSE <<s, ex, mh, ml>>

\* the rounded mantissa mh * 2^28 + ml, carried into the exponent when it
\* reaches 2^53
carry_out(s, ex, mh, ml) ==
    IF ml < Limb THEN finite(s, ex + 3, mh, ml)
    ELSE IF mh + 1 = 2^25 THEN finite(s, ex + 4, 2^24, 0)
    ELSE finite(s, ex + 3, mh + 1, 0)

\* rem is the three bits below the mantissa: above a half the mantissa goes
\* up, and at a half it goes to the even neighbour
round_up(s, ex, mh, ml, rem) ==
    carry_out(s, ex, mh, IF rem > 4 \/ (rem = 4 /\ ml % 2 = 1) THEN ml + 1 ELSE ml)

\* the rounded mantissa of a subnormal: 0.0 when nothing is left of it, the
\* least normal value when it reaches 2^52
subnormal(s, mh, ml) ==
    IF ml = Limb THEN <<s, MinExp, mh + 1, 0>>
    ELSE IF mh = 0 /\ ml = 0 THEN zero
    ELSE <<s, MinExp, mh, ml>>

\* the f64 nearest to s * (h * 2^28 + l) * 2^(MinExp - 3), below the normal
\* values
round_subnormal(s, h, l) ==
    subnormal(s, h \div 8,
              IF l % 8 > 4 \/ (l % 8 = 4 /\ (l \div 8) % 2 = 1)
              THEN (h % 8) * 2^25 + l \div 8 + 1
              ELSE (h % 8) * 2^25 + l \div 8)

\* x shifted down to the exponent of the subnormals
underflow(s, x) == round_subnormal(s, x[1], sticky(x[2], x[3]))

\* the f64 nearest to s * (h * 2^28 + l) * 2^ex, for h * 2^28 + l of 56 bits
round_pack(s, ex, h, l) ==
    IF ex < MinExp - 3 THEN underflow(s, shr(h, l, MinExp - 3 - ex))
    ELSE round_up(s, ex, h \div 8, (h % 8) * 2^25 + l \div 8, l % 8)

\* |p| < |q| for finite p and q other than zero
mag_lt(p, q) ==
    \/ p[2] < q[2]
    \/ p[2] = q[2] /\ p[3] < q[3]
    \/ p[2] = q[2] /\ p[3] = q[3] /\ p[4] < q[4]

\* the f64 nearest to s * (x[1] * 2^28 + x[2]) * 2^ex
round_limbs(s, ex, x) == round_pack(s, ex, x[1], x[2])

\* h * 2^28 + l of n bits, n <= 57, brought to 56 bits
align(s, ex, h, l, n) ==
    IF n = 57
    THEN round_pack(s, ex - 2, h \div 2, sticky(l \div 2 + (h % 2) * 2^27, l % 2 = 1))
    ELSE round_limbs(s, ex + n - 59, shl(h, l, 56 - n))

\* the number of bits of h * 2^28 + l
leading(s, ex, h, l) ==
    align(s, ex, h, l, IF h # 0 THEN 28 + bit_length(h) ELSE bit_length(l))

\* the limbs of a sum or a difference, a carry or a borrow of the low limb
\* taken over by the high one
sum_limbs(s, ex, h, l) == leading(s, ex, h + l \div Limb, l % Limb)

\* a + sgn * b for the widened mantissas a and b, b shifted to the exponent
\* of a
sum_aligned(s, sgn, ex, a, b) ==
    sum_limbs(s, ex, a[1] + sgn * b[1], a[2] + sgn * sticky(b[2], b[3]))

\* s * (|big| + sgn * |small|) for |big| > |small|, or |big| = |small| and
\* sgn = 1
sum_mag(s, sgn, big, small) ==
    sum_aligned(s, sgn, big[2], widen(big),
                shr(small[3] * 8 + small[4] \div 2^25, (small[4] % 2^25) * 8,
                    big[2] - small[2]))

\* s * m for a natural m of len bits
from_natural(s, m, len) ==
    IF len <= 25 THEN <<s, len - 53, m * 2^(25 - len), 0>>
    ELSE <<s, len - 53, m \div 2^(len - 25), (m % 2^(len - 25)) * 2^(53 - len)>>

\* n as f64, for an integer n
f64(n) ==
    IF n = 0 THEN zero
    ELSE IF n = 1 THEN <<1, -52, 2^24, 0>>
    ELSE from_natural(IF n < 0 THEN -1 ELSE 1, iabs(n), bit_length(iabs(n)))

f_neg(p) == <<-p[1], p[2], p[3], p[4]>>

f_abs(p) == <<iabs(p[1]), p[2], p[3], p[4]>>

\* p + q where p or q is 0.0, an infinity or NaN: inf + -inf is NaN
add_special(p, q) ==
    IF p = zero THEN q
    ELSE IF q = zero THEN p
    ELSE IF is_nan(p) \/ is_nan(q) THEN nan
    ELSE IF ~is_special(p) THEN q
    ELSE IF ~is_special(q) \/ p = q THEN p
    ELSE nan

\* p + q
f_add(p, q) ==
    IF is_special(p) \/ is_special(q) THEN add_special(p, q)
    ELSE IF p = f_neg(q) THEN zero
    ELSE IF mag_lt(p, q) THEN sum_mag(q[1], p[1] * q[1], q, p)
    ELSE sum_mag(p[1], p[1] * q[1], p, q)

\* p - q
f_sub(p, q) == f_add(p, f_neg(q))

\* a power of two that is not subnormal
is_power_of_two(p) == p[3] = 2^24 /\ p[4] = 0

is_subnormal(p) == p[3] < 2^24

\* a subnormal p with its mantissa of n bits brought to 53 bits, the exponent
\* below MinExp
normalized(p, n) ==
    <<p[1], p[2] + n - 53, shl(p[3], p[4], 53 - n)[1], shl(p[3], p[4], 53 - n)[2]>>

\* a finite p other than zero with a mantissa of 53 bits
normal(p) ==
    IF is_subnormal(p)
    THEN normalized(p, IF p[3] # 0 THEN 28 + bit_length(p[3]) ELSE bit_length(p[4]))
    ELSE p

\* a value whose exponent was moved to ex is an f64 when it is not subnormal
\* and ex is in range
moves_to(p, ex) == ~is_subnormal(p) /\ ex >= MinExp /\ ex <= MaxExp

\* the mantissa of p as four digits of 14 bits, the lowest first
digits(p) == <<p[4] % Digit, p[4] \div Digit, p[3] % Digit, p[3] \div Digit>>

\* the columns of the long multiplication of the digits a and b
columns(a, b) ==
    <<a[1] * b[1],
      a[1] * b[2] + a[2] * b[1],
      a[1] * b[3] + a[2] * b[2] + a[3] * b[1],
      a[1] * b[4] + a[2] * b[3] + a[3] * b[2] + a[4] * b[1],
      a[2] * b[4] + a[3] * b[3] + a[4] * b[2],
      a[3] * b[4] + a[4] * b[3],
      a[4] * b[4]>>

\* the digits of the columns, every carry taken over by the next column
RECURSIVE propagate(_, _)
propagate(cols, carry) ==
    IF Len(cols) = 1 THEN <<cols[1] + carry>>
    ELSE <<(cols[1] + carry) % Digit>> \o propagate(Tail(cols), (cols[1] + carry) \div Digit)

\* seven digits as four limbs of 28 bits, the lowest first
limbs(d) == <<d[2] * Digit + d[1], d[4] * Digit + d[3], d[6] * Digit + d[5], d[7]>>

\* the 106-bit product of the mantissas of p and q
mantissa_product(p, q) == limbs(propagate(columns(digits(p), digits(q)), 0))

\* the top 56 bits of the product x, which has 84 + k bits
mul_shift(s, ex, x, k) ==
    round_pack(s, ex + 28 + k, x[4] * 2^(28 - k) + x[3] \div 2^k,
               sticky((x[3] % 2^k) * 2^(28 - k) + x[2] \div 2^k,
                      x[2] % 2^k # 0 \/ x[1] # 0))

mul_round(s, ex, x) == mul_shift(s, ex, x, IF x[4] >= 2^21 THEN 22 ELSE 21)

\* p * q where p or q is 0.0, an infinity or NaN: 0.0 * inf is NaN
mul_special(p, q) ==
    IF is_nan(p) \/ is_nan(q) THEN nan
    ELSE IF p = zero \/ q = zero
    THEN (IF is_infinite(p) \/ is_infinite(q) THEN nan ELSE zero)
    ELSE infinity(p[1] * q[1])

\* p * q for p and q with mantissas of 53 bits
mul_normal(p, q) == mul_round(p[1] * q[1], p[2] + q[2], mantissa_product(p, q))

\* p * q; a multiplication by a power of two only moves the exponent
f_mul(p, q) ==
    IF is_special(p) \/ is_special(q) THEN mul_special(p, q)
    ELSE IF is_power_of_two(q) /\ moves_to(p, p[2] + q[2] + 52)
    THEN <<p[1] * q[1], p[2] + q[2] + 52, p[3], p[4]>>
    ELSE IF is_power_of_two(p) /\ moves_to(q, p[2] + q[2] + 52)
    THEN <<p[1] * q[1], p[2] + q[2] + 52, q[3], q[4]>>
    ELSE mul_normal(normal(p), normal(q))

\* r - d, 2 * r and 2 * acc + bit for two-limb naturals
minus(r, d) == <<r[1] - d[1] + (r[2] - d[2]) \div Limb, (r[2] - d[2]) % Limb>>

double(r) == <<r[1] * 2 + (r[2] * 2) \div Limb, (r[2] * 2) % Limb>>

shift_in(acc, bit) ==
    <<acc[1] * 2 + (acc[2] * 2 + bit) \div Limb, (acc[2] * 2 + bit) % Limb>>

\* long division of the mantissa r by the mantissa d, bit by bit, to 57
\* quotient bits below the leading one that acc starts with, and whether a
\* remainder is left
RECURSIVE quotient_bits(_, _, _), quotient_step(_, _, _, _)
quotient_bits(r, d, acc) ==
    IF acc[1] >= 2^29 THEN <<acc[1] - 2^29, acc[2], r # <<0, 0>>>>
    ELSE quotient_step(r, d, acc, r[1] > d[1] \/ (r[1] = d[1] /\ r[2] >= d[2]))

quotient_step(r, d, acc, ge) ==
    quotient_bits(double(IF ge THEN minus(r, d) ELSE r), d, shift_in(acc, IF ge THEN 1 ELSE 0))

\* long division of the digits ds by d < 2^14, the highest digit first: the
\* quotient's digits and then the remainder
RECURSIVE long_division(_, _, _)
long_division(ds, d, rem) ==
    IF ds = << >> THEN <<rem>>
    ELSE <<(rem * Digit + Head(ds)) \div d>>
         \o long_division(Tail(ds), d, (rem * Digit + Head(ds)) % d)

\* the quotient's digits as two limbs, and whether a remainder is left
quotient_limbs(q) == <<q[1] * Limb + q[2] * Digit + q[3], q[4] * Digit + q[5], q[6] # 0>>

\* the same quotient for a divisor whose mantissa is d * 2^39, d < 2^14
quotient_digits(n, d) ==
    quotient_limbs(long_division(<<n[1] \div Digit, n[1] % Digit,
                                   n[2] \div Digit, n[2] % Digit, 0>>, d, 0))

\* the quotient x of 56 or 57 bits, rounded
div_round(s, ex, x) ==
    IF x[1] >= Limb
    THEN round_pack(s, ex + 1, x[1] \div 2,
                    sticky(x[2] \div 2 + (x[1] % 2) * 2^27, x[3] \/ x[2] % 2 = 1))
    ELSE round_pack(s, ex, x[1], sticky(x[2], x[3]))

\* p / q where p or q is 0.0, an infinity or NaN: 0.0 / 0.0 and inf / inf
\* are NaN, and a division of a non-zero by 0.0 is an infinity
div_special(p, q) ==
    IF is_nan(p) \/ is_nan(q) THEN nan
    ELSE IF p = zero THEN (IF q = zero THEN nan ELSE zero)
    ELSE IF is_infinite(p)
    THEN (IF is_infinite(q) THEN nan ELSE infinity(IF q = zero THEN p[1] ELSE p[1] * q[1]))
    ELSE IF q = zero THEN infinity(p[1])
    ELSE zero

\* p / q for p and q with mantissas of 53 bits
div_normal(p, q) ==
    div_round(p[1] * q[1], p[2] - q[2] - 56,
              IF q[4] = 0 /\ q[3] % 2^11 = 0
              THEN quotient_digits(widen(p), q[3] \div 2^11)
              ELSE quotient_bits(<<p[3], p[4]>>, <<q[3], q[4]>>, <<0, 1>>))

\* p / q; a division by a power of two only moves the exponent
f_div(p, q) ==
    IF is_special(p) \/ is_special(q) THEN div_special(p, q)
    ELSE IF is_power_of_two(q) /\ moves_to(p, p[2] - q[2] - 52)
    THEN <<p[1] * q[1], p[2] - q[2] - 52, p[3], p[4]>>
    ELSE div_normal(normal(p), normal(q))

\* the f64 nearest to n / d: n as f64 / d as f64, which is also what the
\* literal of that decimal denotes
frac(n, d) == f_div(f64(n), f64(d))

\* p < q where p or q is 0.0, an infinity or NaN: no comparison with NaN
\* holds
lt_special(p, q) ==
    IF is_nan(p) \/ is_nan(q) \/ p = q THEN FALSE
    ELSE IF p[1] # q[1] THEN p[1] < q[1]
    ELSE IF p[1] = 1 THEN is_infinite(q)
    ELSE is_infinite(p)

\* p < q
f_lt(p, q) ==
    IF is_special(p) \/ is_special(q) THEN lt_special(p, q)
    ELSE IF p[1] # q[1] THEN p[1] < q[1]
    ELSE IF p[1] = 1 THEN mag_lt(p, q)
    ELSE mag_lt(q, p)

\* p == q: NaN equals nothing
f_eq(p, q) == p = q /\ ~is_nan(p)

\* p <= q
f_le(p, q) == ~is_nan(p) /\ ~is_nan(q) /\ ~f_lt(q, p)

\* f64::min and f64::max: of a NaN and a number, the number
f_min(p, q) == IF is_nan(p) THEN q ELSE IF f_lt(q, p) THEN q ELSE p

f_max(p, q) == IF is_nan(p) THEN q ELSE IF f_lt(p, q) THEN q ELSE p

\* the two-limb natural x
natural(x) == x[1] * Limb + x[2]

\* the integer part of a finite p >= 0, for p < 2^31; 0 for NaN, as a cast
\* of NaN to an integer gives
trunc(p) ==
    IF is_special(p) \/ p[2] <= -53 THEN 0
    ELSE natural(shr(p[3], p[4], -p[2]))

(***************************************************************************)
(* Rgba (src/src/rgba.rs)                                                  *)
(***************************************************************************)
Rgba(r, g, b, a) == [r |-> r, g |-> g, b |-> b, a |-> a]

BLACK == Rgba(f64(0), f64(0), f64(0), f64(1))

WHITE == Rgba(f64(1), f64(1), f64(1), f64(1))

GRAYSCALE_FACTOR == Rgba(frac(3, 10), frac(59, 100), frac(11, 100), f64(1))

gray(value) == Rgba(value, value, value, f64(1))

with_alpha(p, alpha) == [p EXCEPT !.a = alpha]

alpha(p) == p.a

map(p, f(_)) == Rgba(f(p.r), f(p.g), f(p.b), f(p.a))

\* into_iter().zip(rhs).map(f).collect(): channel by channel, alpha included
zip_map(p, q, f(_, _)) == Rgba(f(p.r, q.r), f(p.g, q.g), f(p.b, q.b), f(p.a, q.a))

rgba_min(p, q) == zip_map(p, q, f_min)

rgba_max(p, q) == zip_map(p, q, f_max)

rgba_mul(p, q) == zip_map(p, q, f_mul)

rgba_add(p, q) == zip_map(p, q, f_add)

rgba_sub(p, q) == zip_map(p, q, f_sub)

rgba_grayscale(p) ==
    LET w == rgba_mul(p, GRAYSCALE_FACTOR)
    IN  with_alpha(gray(f_div(f_add(f_add(w.r, w.g), w.b), f64(3))), w.a)

\* an order that also accepts equal pixels
rgba_le(p, q) ==
    \/ f_lt(p.r, q.r)
    \/ f_eq(p.r, q.r) /\ f_lt(p.b, q.b)
    \/ f_eq(p.r, q.r) /\ f_eq(p.b, q.b) /\ f_lt(p.g, q.g)
    \/ f_eq(p.r, q.r) /\ f_eq(p.b, q.b) /\ f_eq(p.g, q.g) /\ f_le(p.a, q.a)

\* #[derive(PartialOrd)]: lexicographic in the declared field order r, b, g, a
rgba_lt(p, q) ==
    \/ f_lt(p.r, q.r)
    \/ f_eq(p.r, q.r) /\ f_lt(p.b, q.b)
    \/ f_eq(p.r, q.r) /\ f_eq(p.b, q.b) /\ f_lt(p.g, q.g)
    \/ f_eq(p.r, q.r) /\ f_eq(p.b, q.b) /\ f_eq(p.g, q.g) /\ f_lt(p.a, q.a)

(***************************************************************************)
(* Image (src/src/cpu.rs)                                                  *)
(***************************************************************************)
construct(w, h, f(_, _)) == [x \in 1..w |-> [y \in 1..h |-> f(x - 1, y - 1)]]

from_pixel(w, h, pixel) == construct(w, h, LAMBDA x, y: pixel)

black(w, h) == from_pixel(w, h, BLACK)

width(image) == Len(image)

height(image) == IF Len(image) = 0 THEN 0 ELSE Len(image[1])

index(image, x, y) == image[x + 1][y + 1]

similar(image, f(_, _)) == construct(width(image), height(image), f)

(***************************************************************************)
(* CpuPipeline (src/src/cpu.rs): the recorded closures and what each does  *)
(* when it is called with the raster folded so far.                        *)
(***************************************************************************)
default == << >>

commit(self, action) == Append(self, action)

\* the builder methods: each only records closures
offset(self, x, y) == commit(self, [op |-> "offset", x |-> x, y |-> y])

dim(self, factor) == commit(self, [op |-> "dim", factor |-> factor])

add(self, other) == commit(self, [op |-> "add", other |-> other])

sub(self, other) == commit(self, [op |-> "sub", other |-> other])

ennoise(self, noise) == commit(self, [op |-> "ennoise", other |-> noise])

invert(self) == commit(self, [op |-> "invert"])

grayscale(self) == commit(dim(self, GRAYSCALE_FACTOR), [op |-> "grayscale"])

non_max_suppress(self) == commit(self, [op |-> "non_max_suppress"])

\* image_by(op)(this, other)
image_by(f, this, other) == commit(this, [op |-> "image_by", f |-> f, other |-> other])

\* convolve: the needle is the raster of the needle function's values
convolve(self, needle_width, needle_height, needle, f) ==
    commit(self, [op |-> "convolve", needle_width |-> needle_width,
                  needle_height |-> needle_height, needle |-> needle, f |-> f])

convolve_by(self, needle, f) == convolve(self, width(needle), height(needle), needle, f)

\* the gradient needle |x, y| match (x, y) { ... }
gradient_needle(x, y) ==
    CASE <<x, y>> \in {<<0, 0>>, <<1, 1>>, <<2, 2>>, <<0, 2>>, <<2, 0>>} -> BLACK
      [] <<x, y>> \in {<<1, 0>>, <<0, 1>>} -> map(WHITE, f_neg)
      [] <<x, y>> \in {<<1, 2>>, <<2, 1>>} -> WHITE

gradient(self) ==
    commit(convolve(self, 3, 3, construct(3, 3, gradient_needle), "image_by_add"),
           [op |-> "abs"])

\* the (level, threshold) list quantize builds before it commits
RECURSIVE rev(_)
rev(s) == IF s = << >> THEN << >> ELSE Append(rev(Tail(s)), Head(s))

\* steps built from the list as given, not reversed
quantize_steps_unreversed(thresholds) ==
    LET len == Len(thresholds)
        chained == thresholds \o <<f64(0)>>
    IN  [n \in 1..(len + 1) |-> <<gray(frac(n - 1, len)), chained[n]>>]

\* steps without the trailing 0.0
quantize_steps_unchained(thresholds) ==
    LET len == Len(thresholds)
        chained == rev(thresholds)
    IN  [n \in 1..len |-> <<gray(frac(n - 1, len)), chained[n]>>]

quantize_steps(thresholds) ==
    LET len == Len(thresholds)
        chained == rev(thresholds) \o <<f64(0)>>
    IN  [n \in 1..(len + 1) |-> <<gray(frac(n - 1, len)), chained[n]>>]

quantize(self, thresholds) ==
    commit(self, [op |-> "quantize", steps |-> quantize_steps(thresholds)])

\* the offset of needle cell c on an axis of needle size n:
\* `c as i64 - n as i64 >> 1` groups as (c - n) >> 1, an arithmetic shift
needle_offset(c, n) == (c - n) \div 2

\* the needle cells in the order of the flat_map: x outer, y inner
needle_cells(needle_width, needle_height) ==
    [k \in 1..(needle_width * needle_height) |->
        <<(k - 1) \div needle_height, (k - 1) % needle_height>>]

\* the pipeline convolve builds for one needle cell
cell_pipeline(s, image, c) ==
    dim(offset(commit(default, [op |-> "image", image |-> image]),
               needle_offset(c[1], s.needle_width),
               needle_offset(c[2], s.needle_height)),
        index(s.needle, c[1], c[2]))

\* f(acc, p) for the combinator a convolve closure captured
combine(f, acc, p) ==
    CASE f = "add" -> add(acc, p)
      [] f = "image_by_add" -> image_by("add", acc, p)
      [] f = "image_by_min" -> image_by("min", acc, p)
      [] f = "image_by_max" -> image_by("max", acc, p)

RECURSIVE fold_cells(_, _, _, _)
fold_cells(s, image, cells, acc) ==
    IF cells = << >> THEN acc
    ELSE fold_cells(s, image, Tail(cells),
                    combine(s.f, acc, cell_pipeline(s, image, Head(cells))))

rgba_op(f, p, q) ==
    CASE f = "add" -> rgba_add(p, q)
      [] f = "min" -> rgba_min(p, q)
      [] f = "max" -> rgba_max(p, q)

\* v.min(n - 1).max(0)
clamp(v, n) ==
    LET m == IF v < n - 1 THEN v ELSE n - 1
    IN  IF m > 0 THEN m ELSE 0

\* i64::MAX and i64::MIN. TLC's integers are 32 bits wide, so the two ends of
\* the i64 range are stood for by the two ends of TLC's range; no other model
\* value comes near them.
I64_MAX == 2147483647

I64_MIN == -I64_MAX - 1

\* `i as i64 + x` leaves the i64 range (i is a pixel coordinate, so i >= 0)
add_overflows(i, x) == x > I64_MAX - i

\* what `i as i64 + x` evaluates to without overflow checks: two's complement
wrapping_add(i, x) ==
    IF add_overflows(i, x) THEN I64_MIN + (i - (I64_MAX - x) - 1) ELSE i + x

\* an offset that shifts the columns by y and the rows by x
offset_fn_swapped(s, image) ==
    similar(image, LAMBDA i, j:
        index(image, clamp(wrapping_add(i, s.y), width(image)),
                     clamp(wrapping_add(j, s.x), height(image))))

offset_fn(s, image) ==
    similar(image, LAMBDA i, j:
        index(image, clamp(wrapping_add(i, s.x), width(image)),
                     clamp(wrapping_add(j, s.y), height(image))))

\* with overflow checks (a debug build) the same addition aborts the process
offset_overflows(s, image) ==
    \E i \in 0..(width(image) - 1), j \in 0..(height(image) - 1) :
        add_overflows(i, s.x) \/ add_overflows(j, s.y)

dim_fn(s, image) == similar(image, LAMBDA x, y: rgba_mul(index(image, x, y), s.factor))

grayscale_fn(s, image) == similar(image, LAMBDA x, y: rgba_grayscale(index(image, x, y)))

invert_fn(s, image) == similar(image, LAMBDA x, y: rgba_sub(gray(f64(1)), index(image, x, y)))

\* an abs that returns the raster transposed
abs_fn_transposed(s, image) ==
    construct(height(image), width(image), LAMBDA x, y: map(index(image, y, x), f_abs))

abs_fn(s, image) == similar(image, LAMBDA x, y: map(index(image, x, y), f_abs))

\* a suppress that accepts a pixel greater than either neighbour
suppress_either(image, slice) ==
    \/ rgba_lt(index(image, slice[1][1], slice[1][2]), index(image, slice[2][1], slice[2][2]))
    \/ rgba_lt(index(image, slice[3][1], slice[3][2]), index(image, slice[2][1], slice[2][2]))

suppress(image, slice) ==
    /\ rgba_lt(index(image, slice[1][1], slice[1][2]), index(image, slice[2][1], slice[2][2]))
    /\ rgba_lt(index(image, slice[3][1], slice[3][2]), index(image, slice[2][1], slice[2][2]))

non_max_suppress_fn(s, image) ==
    similar(image, LAMBDA x, y:
        LET xp == IF x - 1 < 0 THEN 0 ELSE x - 1
            xn == IF x + 1 < width(image) - 1 THEN x + 1 ELSE width(image) - 1
            yp == IF y - 1 < 0 THEN 0 ELSE y - 1
            yn == IF y + 1 < height(image) - 1 THEN y + 1 ELSE height(image) - 1
        IN  IF \/ suppress(image, <<<<xp, yp>>, <<x, y>>, <<xn, yn>>>>)
               \/ suppress(image, <<<<xp, y>>, <<x, y>>, <<xn, y>>>>)
               \/ suppress(image, <<<<x, yp>>, <<x, y>>, <<x, yn>>>>)
               \/ suppress(image, <<<<xp, yn>>, <<x, y>>, <<xn, yp>>>>)
            THEN index(image, x, y)
            ELSE BLACK)

\* the channels summed from the back with alpha skipped, 0.0 + b + g + r,
\* over 3.0
intensity(p) == f_div(f_add(f_add(p.b, p.g), p.r), f64(3))

\* the steps whose threshold the pixel meets, in list order
matching(steps, pixel) == {n \in 1..Len(steps) : f_le(steps[n][2], pixel)}

quantize_fn(s, image) ==
    similar(image, LAMBDA x, y:
        LET m == matching(s.steps, intensity(index(image, x, y)))
        IN  s.steps[CHOOSE n \in m : \A k \in m : n <= k][1])

RECURSIVE apply(_, _), call(_, _)

generate(self, w, h) == apply(self, black(w, h))

\* an add that materializes its operand on a black canvas, as image_by does
add_fn_generate(s, image) ==
    LET other == generate(s.other, width(image), height(image))
    IN  similar(image, LAMBDA x, y: rgba_add(index(image, x, y), index(other, x, y)))

add_fn(s, image) ==
    LET other == apply(s.other, image)
    IN  similar(image, LAMBDA x, y: rgba_add(index(image, x, y), index(other, x, y)))

\* a sub that subtracts alpha like the other channels
sub_fn_plain(s, image) ==
    LET other == apply(s.other, image)
    IN  similar(image, LAMBDA x, y: rgba_sub(index(image, x, y), index(other, x, y)))

sub_fn(s, image) ==
    LET other == apply(s.other, image)
    IN  similar(image, LAMBDA x, y:
            with_alpha(rgba_sub(index(image, x, y), index(other, x, y)),
                       alpha(index(image, x, y))))

\* an ennoise that adds the noise as it is
ennoise_fn_uncentred(s, image) ==
    LET other == apply(s.other, image)
    IN  similar(image, LAMBDA x, y: rgba_add(index(image, x, y), index(other, x, y)))

ennoise_fn(s, image) ==
    LET other == apply(s.other, image)
    IN  similar(image, LAMBDA x, y:
            rgba_add(index(image, x, y),
                     rgba_mul(rgba_sub(index(other, x, y), gray(frac(1, 2))),
                              gray(f64(2)))))

image_by_fn(s, this) ==
    LET other == generate(s.other, width(this), height(this))
    IN  similar(this, LAMBDA x, y: rgba_op(s.f, index(this, x, y), index(other, x, y)))

convolve_fn(s, image) ==
    LET out == fold_cells(s, image, needle_cells(s.needle_width, s.needle_height), default)
    IN  generate(out, width(image), height(image))

median_fn(s, image) ==
    LET needle == from_pixel(s.size, s.size, WHITE)
        min == apply(convolve_by(default, needle, "image_by_min"), image)
        max == apply(convolve_by(default, needle, "image_by_max"), image)
    IN  similar(image, LAMBDA x, y: rgba_add(index(min, x, y), index(max, x, y)))

\* Gaussian::new(mean, sigma) of the probability crate, which is not part of
\* the repository; the generators pass their `variance` argument as sigma.
\* Every sigma is accepted, also 0.0 and the negative ones, for which density
\* is not a probability density.
Gaussian(mean, sigma) == [mu |-> mean, sigma |-> sigma]

\* f64::sqrt (correctly rounded) of the squared distances i * i + j * j of a
\* needle of up to 7 x 7 cells
f_sqrt(p) ==
    CASE p = f64(0) -> zero
      [] p = f64(1) -> <<1, -52, 16777216, 0>>
      [] p = f64(2) -> <<1, -52, 23726566, 109001677>>
      [] p = f64(4) -> <<1, -51, 16777216, 0>>
      [] p = f64(5) -> <<1, -51, 18757497, 194507944>>
      [] p = f64(8) -> <<1, -51, 23726566, 109001677>>
      [] p = f64(9) -> <<1, -51, 25165824, 0>>
      [] p = f64(10) -> <<1, -51, 26527107, 182082387>>
      [] p = f64(13) -> <<1, -51, 30245556, 73488883>>
      [] p = f64(18) -> <<1, -50, 17794924, 215968985>>

\* Continuous::density of probability::distribution::Gaussian. The crate is
\* not part of the repository; the density is the Gaussian probability
\* density of mean mu and standard deviation sigma, evaluated in f64 as
\* exp(-(x - mu)^2 / sigma / sigma / 2) / (sqrt(2 pi) * sigma) and tabulated
\* bit for bit by sigma and by the distance |x - mu|. The rows hold the
\* distances of the cells of needles of up to 7 x 7 and, for the sigmas the
\* noise generators are given here, those of the bytes 0..254 around the mean
\* 0.5; other sigmas and distances have no row.
density_rows(sigma) ==
    CASE sigma = <<1, -56, 26843545, 161061274>> ->    \* sigma = 0.1
          {<<zero, <<1, -51, 33465704, 13190117>>>>,    \* sqrt(0): 3.989422804014327
           <<<<1, -52, 16777216, 0>>, <<1, -123, 30481445, 140643153>>>>,    \* sqrt(1): 7.69459862670642e-22
           <<<<1, -52, 23726566, 109001677>>, <<1, -195, 27763304, 49238021>>>>,    \* sqrt(2): 1.4840955931403165e-43
           <<<<1, -51, 16777216, 0>>, <<1, -339, 23032566, 175931149>>>>,    \* sqrt(4): 5.5209483621597635e-87
           <<<<1, -51, 18757497, 194507944>>, <<1, -411, 20978668, 249858521>>>>,    \* sqrt(5): 1.0648528314131984e-108
           <<<<1, -51, 23726566, 109001677>>, <<1, -628, 31704046, 263690108>>>>,    \* sqrt(8): 7.640421262685342e-174
           <<<<1, -51, 25165824, 0>>, <<1, -700, 28876881, 221159909>>>>,    \* sqrt(9): 1.4736461348785476e-195
           <<<<1, -51, 26527107, 182082387>>, <<1, -772, 26301825, 70696201>>>>,    \* sqrt(10): 2.8422947585994522e-217
           <<<<1, -51, 30245556, 73488883>>, <<1, -988, 19874337, 202085724>>>>,    \* sqrt(13): 2.0393737676979036e-282
           <<<<1, -50, 17794924, 215968985>>, zero>>,    \* sqrt(18): 0.0
           <<<<1, -60, 16777216, 0>>, <<1, -51, 33440181, 128987693>>>>,    \* 1/256: 3.9863802767415764
           <<<<1, -59, 16777216, 0>>, <<1, -51, 33363730, 135231873>>>>,    \* 2/256: 3.9772666101191025
           <<<<1, -59, 25165824, 0>>, <<1, -51, 33236700, 111927064>>>>,    \* 3/256: 3.9621234437180526
           <<<<1, -58, 16777216, 0>>, <<1, -51, 33059670, 115029472>>>>,    \* 4/256: 3.9410198245666237
           <<<<1, -58, 20971520, 0>>, <<1, -51, 32833445, 69243094>>>>,    \* 5/256: 3.914051682704762
           <<<<1, -58, 25165824, 0>>, <<1, -51, 32559049, 11364275>>>>,    \* 6/256: 3.8813411047858266
           <<<<1, -58, 29360128, 0>>, <<1, -51, 32237717, 164635012>>>>,    \* 7/256: 3.8430354134217755
           <<<<1, -57, 16777216, 0>>, <<1, -51, 31870889, 60673550>>>>,    \* 8/256: 3.799306061986278
           <<<<1, -57, 18874368, 0>>, <<1, -51, 31460193, 224765231>>>>,    \* 9/256: 3.7503473564762753
           <<<<1, -57, 20971520, 0>>, <<1, -51, 31007441, 12079589>>>>,    \* 10/256: 3.6963750177621812
           <<<<1, -57, 23068672, 0>>, <<1, -51, 30514606, 218257806>>>>,    \* 11/256: 3.6376245991079434
           <<<<1, -57, 25165824, 0>>, <<1, -51, 29983819, 31944384>>>>,    \* 12/256: 3.5743497751953726
           <<<<1, -57, 27262976, 0>>, <<1, -51, 29417342, 179545177>>>>,    \* 13/256: 3.506820520026434
           <<<<1, -57, 29360128, 0>>, <<1, -51, 28817562, 223793783>>>>,    \* 14/256: 3.435321191989995
           <<<<1, -57, 31457280, 0>>, <<1, -51, 28186968, 259376462>>>>,    \* 15/256: 3.3601485450568935
           <<<<1, -56, 16777216, 0>>, <<1, -51, 27528137, 69979579>>>>,    \* 16/256: 3.2816096855037507
           <<<<1, -56, 17825792, 0>>, <<1, -51, 26843713, 85850329>>>>,    \* 17/256: 3.2000199937602756
           <<<<1, -56, 18874368, 0>>, <<1, -51, 26136394, 159358899>>>>,    \* 18/256: 3.1157010309288693
           <<<<1, -56, 19922944, 0>>, <<1, -51, 25408912, 228482486>>>>,    \* 19/256: 3.028978449244927
           <<<<1, -56, 20971520, 0>>, <<1, -51, 24664016, 226106198>>>>,    \* 20/256: 2.9401799252404244
           <<<<1, -56, 22020096, 0>>, <<1, -51, 23904455, 81077877>>>>,    \* 21/256: 2.849633133654431
           <<<<1, -56, 23068672, 0>>, <<1, -51, 23132960, 118018248>>>>,    \* 22/256: 2.757663779217271
           <<<<1, -56, 24117248, 0>>, <<1, -51, 22352232, 12933766>>>>,    \* 23/256: 2.664593702337984
           <<<<1, -56, 25165824, 0>>, <<1, -51, 21564922, 95992727>>>>,    \* 24/256: 2.570739073467347
           <<<<1, -56, 26214400, 0>>, <<1, -51, 20773621, 199747558>>>>,    \* 25/256: 2.476408689512925
           <<<<1, -56, 27262976, 0>>, <<1, -51, 19980845, 106053467>>>>,    \* 26/256: 2.38190238417148
           <<<<1, -56, 28311552, 0>>, <<1, -51, 19189021, 4181194>>>>,    \* 27/256: 2.287509562441845
           <<<<1, -56, 29360128, 0>>, <<1, -51, 18400477, 174170415>>>>,    \* 28/256: 2.1935078679126927
           <<<<1, -56, 30408704, 0>>, <<1, -51, 17617435, 179361072>>>>,    \* 29/256: 2.1001619897093846
           <<<<1, -56, 31457280, 0>>, <<1, -51, 16841997, 264069491>>>>,    \* 30/256: 2.0077226142568008
           <<<<1, -56, 32505856, 0>>, <<1, -52, 32152284, 264618374>>>>,    \* 31/256: 1.916425525294558
           <<<<1, -55, 16777216, 0>>, <<1, -52, 30643431, 155086074>>>>,    \* 32/256: 1.8264908538902191
           <<<<1, -55, 17301504, 0>>, <<1, -52, 29160856, 69040126>>>>,    \* 33/256: 1.7381224785563059
           <<<<1, -55, 17825792, 0>>, <<1, -52, 27707699, 79126387>>>>,    \* 34/256: 1.6515075740080334
           <<<<1, -55, 18350080, 0>>, <<1, -52, 26286815, 158828596>>>>,    \* 35/256: 1.5668163056184428
           <<<<1, -55, 18874368, 0>>, <<1, -52, 24900771, 248434005>>>>,    \* 36/256: 1.4842016652517789
           <<<<1, -55, 19398656, 0>>, <<1, -52, 23551846, 127286382>>>>,    \* 37/256: 1.403799442897959
           <<<<1, -55, 19922944, 0>>, <<1, -52, 22242030, 135865690>>>>,    \* 38/256: 1.325728327401825
           <<<<1, -55, 20447232, 0>>, <<1, -52, 20973032, 28671069>>>>,    \* 39/256: 1.2500901285891566
           <<<<1, -55, 20971520, 0>>, <<1, -52, 19746281, 214385553>>>>,    \* 40/256: 1.1769701122432006
           <<<<1, -55, 21495808, 0>>, <<1, -52, 18562939, 241402784>>>>,    \* 41/256: 1.1064374386844307
           <<<<1, -55, 22020096, 0>>, <<1, -52, 17423905, 121725449>>>>,    \* 42/256: 1.0385456951536318
           <<<<1, -55, 22544384, 0>>, <<1, -53, 32659653, 36181429>>>>,    \* 43/256: 0.9733335117932059
           <<<<1, -55, 23068672, 0>>, <<1, -53, 30562223, 252472670>>>>,    \* 44/256: 0.9108252507607337
           <<<<1, -55, 23592960, 0>>, <<1, -53, 28555887, 67072942>>>>,    \* 45/256: 0.85103175788719
           <<<<1, -55, 24117248, 0>>, <<1, -53, 26640580, 113020724>>>>,    \* 46/256: 0.793951166303009
           <<<<1, -55, 24641536, 0>>, <<1, -53, 24815842, 161985078>>>>,    \* 47/256: 0.7395697415900659
           <<<<1, -55, 25165824, 0>>, <<1, -53, 23080844, 39621012>>>>,    \* 48/256: 0.687862758266919
           <<<<1, -55, 25690112, 0>>, <<1, -53, 21434416, 197650815>>>>,    \* 49/256: 0.6387953977676232
           <<<<1, -55, 26214400, 0>>, <<1, -53, 19875083, 247439789>>>>,    \* 50/256: 0.5923236585195376
           <<<<1, -55, 26738688, 0>>, <<1, -53, 18401091, 207015631>>>>,    \* 51/256: 0.5483952692506707
           <<<<1, -55, 27262976, 0>>, <<1, -53, 17010439, 92013416>>>>,    \* 52/256: 0.5069505972497668
           <<<<1, -55, 27787264, 0>>, <<1, -54, 31401817, 127059911>>>>,    \* 53/256: 0.46792354394994756
           <<<<1, -55, 28311552, 0>>, <<1, -54, 28940188, 261722491>>>>,    \* 54/256: 0.4312424208967724
           <<<<1, -55, 28835840, 0>>, <<1, -54, 26630864, 48394235>>>>,    \* 55/256: 0.39683079988185427
           <<<<1, -55, 29360128, 0>>, <<1, -54, 24468450, 254873470>>>>,    \* 56/256: 0.3646083317619214
           <<<<1, -55, 29884416, 0>>, <<1, -54, 22447346, 146082721>>>>,    \* 57/256: 0.33449152922929143
           <<<<1, -55, 30408704, 0>>, <<1, -54, 20561787, 126500645>>>>,    \* 58/256: 0.30639450954275765
           <<<<1, -55, 30932992, 0>>, <<1, -54, 18805896, 112906902>>>>,    \* 59/256: 0.280229693958327
           <<<<1, -55, 31457280, 0>>, <<1, -54, 17173726, 33931044>>>>,    \* 60/256: 0.25590846130852385
           <<<<1, -55, 31981568, 0>>, <<1, -55, 31318600, 13571036>>>>,    \* 61/256: 0.23334175385949052
           <<<<1, -55, 32505856, 0>>, <<1, -55, 28513299, 69775432>>>>,    \* 62/256: 0.21244063422034487
           <<<<1, -55, 33030144, 0>>, <<1, -55, 25919697, 40978210>>>>,    \* 63/256: 0.19311679268371856
           <<<<1, -54, 16777216, 0>>, <<1, -55, 23526086, 182396652>>>>,    \* 64/256: 0.17528300493568538
           <<<<1, -54, 17039360, 0>>, <<1, -55, 21320961, 81052249>>>>,    \* 65/256: 0.15885354058402149
           <<<<1, -54, 17301504, 0>>, <<1, -55, 19293063, 92612742>>>>,    \* 66/256: 0.14374452341354899
           <<<<1, -54, 17563648, 0>>, <<1, -55, 17431426, 12698988>>>>,    \* 67/256: 0.12987424468478126
           <<<<1, -54, 17825792, 0>>, <<1, -56, 31450819, 17819909>>>>,    \* 68/256: 0.11716343114668255
           <<<<1, -54, 18087936, 0>>, <<1, -56, 28329461, 253095435>>>>,    \* 69/256: 0.1055354697363599
           <<<<1, -54, 18350080, 0>>, <<1, -56, 25478978, 117513145>>>>,    \* 70/256: 0.09491659118894703
           <<<<1, -54, 18612224, 0>>, <<1, -56, 22880368, 147418587>>>>,    \* 71/256: 0.0852360149814823
           <<<<1, -54, 18874368, 0>>, <<1, -56, 20515463, 209335213>>>>,    \* 72/256: 0.07642605818746402
           <<<<1, -54, 19136512, 0>>, <<1, -56, 18366947, 104859796>>>>,    \* 73/256: 0.06842221092668616
           <<<<1, -54, 19398656, 0>>, <<1, -57, 32836732, 228365360>>>>,    \* 74/256: 0.061163181160999947
           <<<<1, -54, 19660800, 0>>, <<1, -57, 29308272, 135620065>>>>,    \* 75/256: 0.05459091161419472
           <<<<1, -54, 19922944, 0>>, <<1, -57, 26119076, 197875488>>>>,    \* 76/256: 0.048650571586831726
           <<<<1, -54, 20185088, 0>>, <<1, -57, 23241424, 104267807>>>>,    \* 77/256: 0.0432905263983232
           <<<<1, -54, 20447232, 0>>, <<1, -57, 20649283, 44324126>>>>,    \* 78/256: 0.03846228712260767
           <<<<1, -54, 20709376, 0>>, <<1, -57, 18318273, 122277437>>>>,    \* 79/256: 0.03412044319420857
           <<<<1, -54, 20971520, 0>>, <<1, -58, 32451248, 148479620>>>>,    \* 80/256: 0.030222580351987563
           <<<<1, -54, 21233664, 0>>, <<1, -58, 28700245, 56670503>>>>,    \* 81/256: 0.026729186262110318
           <<<<1, -54, 21495808, 0>>, <<1, -58, 25344114, 150236357>>>>,    \* 82/256: 0.023603546023065265
           <<<<1, -54, 21757952, 0>>, <<1, -58, 22346317, 36211640>>>>,    \* 83/256: 0.020811629607248
           <<<<1, -54, 22020096, 0>>, <<1, -58, 19673068, 230097814>>>>,    \* 84/256: 0.018321973138657542
           <<<<1, -54, 22282240, 0>>, <<1, -58, 17293208, 216023761>>>>,    \* 85/256: 0.01610555574740397
           <<<<1, -54, 22544384, 0>>, <<1, -59, 30356127, 233467882>>>>,    \* 86/256: 0.014135673581499437
           <<<<1, -54, 22806528, 0>>, <<1, -59, 26602624, 149543952>>>>,    \* 87/256: 0.012387812397021164
           <<<<1, -54, 23068672, 0>>, <<1, -59, 23277691, 250492225>>>>,    \* 88/256: 0.01083951999114652
           <<<<1, -54, 23330816, 0>>, <<1, -59, 20337270, 150986491>>>>,    \* 89/256: 0.009470279590444877
           <<<<1, -54, 23592960, 0>>, <<1, -59, 17741189, 145538547>>>>,    \* 90/256: 0.008261385160579037
           <<<<1, -54, 23855104, 0>>, <<1, -60, 30905809, 71783703>>>>,    \* 91/256: 0.007195819464375994
           <<<<1, -54, 24117248, 0>>, <<1, -60, 26878487, 156027128>>>>,    \* 92/256: 0.006258135563984128
           <<<<1, -54, 24379392, 0>>, <<1, -60, 23340322, 168185774>>>>,    \* 93/256: 0.005434342340226479
           <<<<1, -54, 24641536, 0>>, <<1, -60, 20237003, 63004266>>>>,    \* 94/256: 0.00471179448876278
           <<<<1, -54, 24903680, 0>>, <<1, -60, 17519546, 203915115>>>>,    \* 95/256: 0.004079087348571746
           <<<<1, -54, 25165824, 0>>, <<1, -61, 30287738, 131420534>>>>,    \* 96/256: 0.0035259568236744544
           <<<<1, -54, 25427968, 0>>, <<1, -61, 26140756, 118439833>>>>,    \* 97/256: 0.003043184573904467
           <<<<1, -54, 25690112, 0>>, <<1, -61, 22527177, 33245856>>>>,    \* 98/256: 0.0026225085747254157
           <<<<1, -54, 25952256, 0>>, <<1, -61, 19383523, 25692408>>>>,    \* 99/256: 0.002256539079327099
           <<<<1, -54, 26214400, 0>>, <<1, -62, 33306268, 18876462>>>>,    \* 100/256: 0.0019386799581302505
           <<<<1, -54, 26476544, 0>>, <<1, -62, 28571073, 54605463>>>>,    \* 101/256: 0.0016630553409585963
           <<<<1, -54, 26738688, 0>>, <<1, -62, 24471717, 183971471>>>>,    \* 102/256: 0.0014244414449987896
           <<<<1, -54, 27000832, 0>>, <<1, -62, 20928575, 183201248>>>>,    \* 103/256: 0.0012182034367275094
           <<<<1, -54, 27262976, 0>>, <<1, -62, 17871138, 31521137>>>>,    \* 104/256: 0.0010402371476768391
           <<<<1, -54, 27525120, 0>>, <<1, -63, 30474182, 142227440>>>>,    \* 105/256: 0.000886915441655976
           <<<<1, -54, 27787264, 0>>, <<1, -63, 25942942, 265182679>>>>,    \* 106/256: 0.0007550390142680397
           <<<<1, -54, 28049408, 0>>, <<1, -63, 22051784, 100308700>>>>,    \* 107/256: 0.000641791393680004
           <<<<1, -54, 28311552, 0>>, <<1, -63, 18715677, 127001662>>>>,    \* 108/256: 0.0005446979040605383
           <<<<1, -54, 28573696, 0>>, <<1, -64, 31720109, 224164777>>>>,    \* 109/256: 0.00046158834935455334
           <<<<1, -54, 28835840, 0>>, <<1, -64, 26839296, 265989809>>>>,    \* 110/256: 0.00039056317460038197
           <<<<1, -54, 29097984, 0>>, <<1, -64, 22674875, 101789545>>>>,    \* 111/256: 0.0003299628643318371
           <<<<1, -54, 29360128, 0>>, <<1, -64, 19127402, 181686672>>>>,    \* 112/256: 0.0002783403422921488
           <<<<1, -54, 29622272, 0>>, <<1, -65, 32220658, 51476162>>>>,    \* 113/256: 0.00023443614330436428
           <<<<1, -54, 29884416, 0>>, <<1, -65, 27096933, 12229042>>>>,    \* 114/256: 0.000197156136313837
           <<<<1, -54, 30146560, 0>>, <<1, -65, 22753236, 231638291>>>>,    \* 115/256: 0.0001655515870000809
           <<<<1, -54, 30408704, 0>>, <<1, -65, 19076713, 126726269>>>>,    \* 116/256: 0.00013880135864086435
           <<<<1, -54, 30670848, 0>>, <<1, -66, 31939729, 267353365>>>>,    \* 117/256: 0.00011619606082956633
           <<<<1, -54, 30932992, 0>>, <<1, -66, 26697232, 201883075>>>>,    \* 118/256: 9.712396696003656e-05
           <<<<1, -54, 31195136, 0>>, <<1, -66, 22281199, 231515034>>>>,    \* 119/256: 8.105853289620685e-05
           <<<<1, -54, 31457280, 0>>, <<1, -66, 18567277, 39109176>>>>,    \* 120/256: 6.754736076142957e-05
           <<<<1, -54, 31719424, 0>>, <<1, -67, 30897630, 236601739>>>>,    \* 121/256: 5.620246316795631e-05
           <<<<1, -54, 31981568, 0>>, <<1, -67, 25669030, 113566964>>>>,    \* 122/256: 4.669169433886038e-05
           <<<<1, -54, 32243712, 0>>, <<1, -67, 21292716, 85370840>>>>,    \* 123/256: 3.873122535520663e-05
           <<<<1, -54, 32505856, 0>>, <<1, -67, 17635589, 235721170>>>>,    \* 124/256: 3.2078951113598646e-05
           <<<<1, -54, 32768000, 0>>, <<1, -68, 29168643, 52812132>>>>,    \* 125/256: 2.6528726445340474e-05
           <<<<1, -54, 33030144, 0>>, <<1, -68, 24085174, 12547803>>>>,    \* 126/256: 2.1905338186792695e-05
           <<<<1, -54, 33292288, 0>>, <<1, -68, 19857321, 157309047>>>>,    \* 127/256: 1.8060128773888088e-05
           <<<<1, -53, 16777216, 0>>, <<1, -69, 32693307, 234568847>>>>}    \* 128/256: 1.4867195147342977e-05
      [] sigma = <<1, -55, 26843545, 161061274>> ->    \* sigma = 0.2
          {<<zero, <<1, -52, 33465704, 13190117>>>>,    \* sqrt(0): 1.9947114020071635
           <<<<1, -52, 16777216, 0>>, <<1, -70, 32693307, 234568847>>>>,    \* sqrt(1): 7.433597573671489e-06
           <<<<1, -52, 23726566, 109001677>>, <<1, -88, 31938738, 209534597>>>>,    \* sqrt(2): 2.7702439977879066e-11
           <<<<1, -51, 16777216, 0>>, <<1, -124, 30481445, 140643153>>>>,    \* sqrt(4): 3.84729931335321e-22
           <<<<1, -51, 18757497, 194507944>>, <<1, -142, 29777926, 194438483>>>>,    \* sqrt(5): 1.4337550190043731e-27
           <<<<1, -51, 23726566, 109001677>>, <<1, -196, 27763304, 49238021>>>>,    \* sqrt(8): 7.420477965701583e-44
           <<<<1, -51, 25165824, 0>>, <<1, -214, 27122520, 191522002>>>>,    \* sqrt(9): 2.765354774922208e-49
           <<<<1, -51, 26527107, 182082387>>, <<1, -232, 26496526, 180909466>>>>,    \* sqrt(10): 1.0305518143886601e-54
           <<<<1, -51, 30245556, 73488883>>, <<1, -286, 24703906, 245015719>>>>,    \* sqrt(13): 5.333677601697806e-71
           <<<<1, -50, 17794924, 215968985>>, <<1, -376, 21981642, 33423309>>>>}    \* sqrt(18): 3.833731046752319e-98
      [] sigma = <<1, -54, 20132659, 53687091>> ->    \* sigma = 0.3
          {<<zero, <<1, -52, 22310469, 98271897>>>>,    \* sqrt(0): 1.329807601338109
           <<<<1, -52, 16777216, 0>>, <<1, -60, 22080126, 45077474>>>>,    \* sqrt(1): 0.005140929987637018
           <<<<1, -52, 23726566, 109001677>>, <<1, -68, 21852161, 36313987>>>>,    \* sqrt(2): 1.9874424774825587e-05
           <<<<1, -51, 16777216, 0>>, <<1, -84, 21403267, 162964637>>>>,    \* sqrt(4): 2.9703000624507177e-10
           <<<<1, -51, 18757497, 194507944>>, <<1, -92, 21182290, 204803076>>>>,    \* sqrt(5): 1.1482942831705506e-12
           <<<<1, -51, 23726566, 109001677>>, <<1, -116, 20532955, 8878247>>>>,    \* sqrt(8): 6.634555594446079e-20
           <<<<1, -51, 25165824, 0>>, <<1, -124, 20320963, 183240587>>>>,    \* sqrt(9): 2.56486620890214e-22
           <<<<1, -51, 26527107, 182082387>>, <<1, -132, 20111161, 6727764>>>>,    \* sqrt(10): 9.915567932047894e-25
           <<<<1, -51, 30245556, 73488883>>, <<1, -156, 19494660, 108296170>>>>,    \* sqrt(13): 5.728965793859098e-32
           <<<<1, -50, 17794924, 215968985>>, <<1, -196, 18508869, 122303975>>>>}    \* sqrt(18): 4.946985310467864e-44
      [] sigma = <<1, -54, 26843545, 161061274>> ->    \* sigma = 0.4
          {<<zero, <<1, -53, 33465704, 13190117>>>>,    \* sqrt(0): 0.9973557010035817
           <<<<1, -52, 16777216, 0>>, <<1, -57, 23526086, 182396652>>>>,    \* sqrt(1): 0.043820751233921346
           <<<<1, -52, 23726566, 109001677>>, <<1, -62, 33077251, 129749779>>>>,    \* sqrt(2): 0.0019253494382926492
           <<<<1, -51, 16777216, 0>>, <<1, -71, 32693307, 234568847>>>>,    \* sqrt(4): 3.7167987868357443e-06
           <<<<1, -51, 18757497, 194507944>>, <<1, -75, 22983099, 45021561>>>>,    \* sqrt(5): 1.6330474158876303e-07
           <<<<1, -51, 23726566, 109001677>>, <<1, -89, 31938738, 209534597>>>>,    \* sqrt(8): 1.3851219988939533e-11
           <<<<1, -51, 25165824, 0>>, <<1, -93, 22452643, 250472072>>>>,    \* sqrt(9): 6.085801332572524e-13
           <<<<1, -51, 26527107, 182082387>>, <<1, -98, 31568010, 117319485>>>>,    \* sqrt(10): 2.6739144919448246e-14
           <<<<1, -51, 30245556, 73488883>>, <<1, -111, 21934431, 195345806>>>>,    \* sqrt(13): 2.2679670840672324e-18
           <<<<1, -50, 17794924, 215968985>>, <<1, -134, 30127632, 184152282>>>>}    \* sqrt(18): 3.713517436384444e-25
      [] sigma = <<1, -53, 16777216, 0>> ->    \* sigma = 0.5
          {<<zero, <<1, -53, 26772563, 64239185>>>>,    \* sqrt(0): 0.7978845608028654
           <<<<1, -52, 16777216, 0>>, <<1, -56, 28986179, 115882710>>>>,    \* sqrt(1): 0.10798193302637613
           <<<<1, -52, 23726566, 109001677>>, <<1, -59, 31382822, 114538083>>>>,    \* sqrt(2): 0.014613765490561542
           <<<<1, -51, 16777216, 0>>, <<1, -64, 18393486, 46183605>>>>,    \* sqrt(4): 0.00026766045152977074
           <<<<1, -51, 18757497, 194507944>>, <<1, -67, 19914301, 76885800>>>>,    \* sqrt(5): 3.62239030190211e-05
           <<<<1, -51, 23726566, 109001677>>, <<1, -76, 25273660, 65009714>>>>,    \* sqrt(8): 8.979007845574947e-08
           <<<<1, -51, 25165824, 0>>, <<1, -79, 27363343, 198215677>>>>,    \* sqrt(9): 1.2151765699646572e-08
           <<<<1, -51, 26527107, 182082387>>, <<1, -82, 29625807, 297692>>>>,    \* sqrt(10): 1.644562652786618e-09
           <<<<1, -51, 30245556, 73488883>>, <<1, -90, 18799368, 160769001>>>>,    \* sqrt(13): 4.076463255259059e-12
           <<<<1, -50, 17794924, 215968985>>, <<1, -105, 27967160, 208777552>>>>,    \* sqrt(18): 1.850711454681123e-16
           <<<<1, -60, 16777216, 0>>, <<1, -53, 26771746, 58515217>>>>,    \* 1/256: 0.7978602116699866
           <<<<1, -59, 16777216, 0>>, <<1, -53, 26769295, 81500115>>>>,    \* 2/256: 0.7977871687296506
           <<<<1, -59, 25165824, 0>>, <<1, -53, 26765210, 253652032>>>>,    \* 3/256: 0.7976654453553991
           <<<<1, -58, 16777216, 0>>, <<1, -53, 26759493, 238822803>>>>,    \* 4/256: 0.7974950638319335
           <<<<1, -58, 20971520, 0>>, <<1, -53, 26752145, 49503064>>>>,    \* 5/256: 0.7972760553483154
           <<<<1, -58, 25165824, 0>>, <<1, -53, 26743166, 46736554>>>>,    \* 6/256: 0.7970084599884519
           <<<<1, -58, 29360128, 0>>, <<1, -53, 26732558, 134703606>>>>,    \* 7/256: 0.7966923267188679
           <<<<1, -57, 16777216, 0>>, <<1, -53, 26720324, 29022105>>>>,    \* 8/256: 0.7963277133737733
           <<<<1, -57, 18874368, 0>>, <<1, -53, 26706465, 61895019>>>>,    \* 9/256: 0.7959146866374288
           <<<<1, -57, 20971520, 0>>, <<1, -53, 26690984, 108185499>>>>,    \* 10/256: 0.7954533220238206
           <<<<1, -57, 23068672, 0>>, <<1, -53, 26673884, 122080531>>>>,    \* 11/256: 0.7949437038536494
           <<<<1, -57, 25165824, 0>>, <<1, -53, 26655168, 136859601>>>>,    \* 12/256: 0.7943859252286477
           <<<<1, -57, 27262976, 0>>, <<1, -53, 26634839, 264639359>>>>,    \* 13/256: 0.7937800880032312
           <<<<1, -57, 29360128, 0>>, <<1, -53, 26612902, 159223507>>>>,    \* 14/256: 0.7931263027535017
           <<<<1, -57, 31457280, 0>>, <<1, -53, 26589360, 89541652>>>>,    \* 15/256: 0.7924246887436106
           <<<<1, -56, 16777216, 0>>, <<1, -53, 26564217, 134016340>>>>,    \* 16/256: 0.791675373889499
           <<<<1, -56, 17825792, 0>>, <<1, -53, 26537478, 180212974>>>>,    \* 17/256: 0.7908784947200311
           <<<<1, -56, 18874368, 0>>, <<1, -53, 26509148, 192901834>>>>,    \* 18/256: 0.7900341963355342
           <<<<1, -56, 19922944, 0>>, <<1, -53, 26479232, 213661461>>>>,    \* 19/256: 0.7891426323637655
           <<<<1, -56, 20971520, 0>>, <<1, -53, 26447736, 92023578>>>>,    \* 20/256: 0.7882039649133248
           <<<<1, -56, 22020096, 0>>, <<1, -53, 26414665, 21901528>>>>,    \* 21/256: 0.7872183645245299
           <<<<1, -56, 23068672, 0>>, <<1, -53, 26380025, 4254251>>>>,    \* 22/256: 0.7861860101177788
           <<<<1, -56, 24117248, 0>>, <<1, -53, 26343822, 115034166>>>>,    \* 23/256: 0.7851070889394183
           <<<<1, -56, 25165824, 0>>, <<1, -53, 26306063, 236241908>>>>,    \* 24/256: 0.7839817965051439
           <<<<1, -56, 26214400, 0>>, <<1, -53, 26266756, 55394475>>>>,    \* 25/256: 0.7828103365409523
           <<<<1, -56, 27262976, 0>>, <<1, -53, 26225906, 138713412>>>>,    \* 26/256: 0.7815929209216752
           <<<<1, -56, 28311552, 0>>, <<1, -53, 26183522, 51501388>>>>,    \* 27/256: 0.7803297696071154
           <<<<1, -56, 29360128, 0>>, <<1, -53, 26139610, 236593848>>>>,    \* 28/256: 0.779021110575818
           <<<<1, -56, 30408704, 0>>, <<1, -53, 26094180, 134693190>>>>,    \* 29/256: 0.7776671797564993
           <<<<1, -56, 31457280, 0>>, <<1, -53, 26047239, 62778512>>>>,    \* 30/256: 0.7762682209571654
           <<<<1, -56, 32505856, 0>>, <<1, -53, 25998795, 139704800>>>>,    \* 31/256: 0.7748244857919495
           <<<<1, -55, 16777216, 0>>, <<1, -53, 25948858, 17088206>>>>,    \* 32/256: 0.7733362336056986
           <<<<1, -55, 17301504, 0>>, <<1, -53, 25897435, 220784075>>>>,    \* 33/256: 0.7718037313963405
           <<<<1, -55, 17825792, 0>>, <<1, -53, 25844538, 2684357>>>>,    \* 34/256: 0.7702272537350657
           <<<<1, -55, 18350080, 0>>, <<1, -53, 25790174, 24333828>>>>,    \* 35/256: 0.7686070826843552
           <<<<1, -55, 18874368, 0>>, <<1, -53, 25734353, 208689016>>>>,    \* 36/256: 0.7669435077138891
           <<<<1, -55, 19398656, 0>>, <<1, -53, 25677087, 7777473>>>>,    \* 37/256: 0.7652368256143732
           <<<<1, -55, 19922944, 0>>, <<1, -53, 25618384, 12515873>>>>,    \* 38/256: 0.7634873404093164
           <<<<1, -55, 20447232, 0>>, <<1, -53, 25558255, 72849067>>>>,    \* 39/256: 0.7616953632647968
           <<<<1, -55, 20971520, 0>>, <<1, -53, 25496711, 102225931>>>>,    \* 40/256: 0.7598612123972556
           <<<<1, -55, 21495808, 0>>, <<1, -53, 25433763, 76751403>>>>,    \* 41/256: 0.7579852129793542
           <<<<1, -55, 22020096, 0>>, <<1, -53, 25369422, 34321443>>>>,    \* 42/256: 0.7560676970439356
           <<<<1, -55, 22544384, 0>>, <<1, -53, 25303699, 73741272>>>>,    \* 43/256: 0.7541090033861293
           <<<<1, -55, 23068672, 0>>, <<1, -53, 25236606, 85391787>>>>,    \* 44/256: 0.7521094774636387
           <<<<1, -55, 23592960, 0>>, <<1, -53, 25168155, 18750911>>>>,    \* 45/256: 0.750069471295255
           <<<<1, -55, 24117248, 0>>, <<1, -53, 25098357, 149899311>>>>,    \* 46/256: 0.747989343357636
           <<<<1, -55, 24641536, 0>>, <<1, -53, 25027226, 6833620>>>>,    \* 47/256: 0.7458694584803944
           <<<<1, -55, 25165824, 0>>, <<1, -53, 24954772, 247554817>>>>,    \* 48/256: 0.7437101877395379
           <<<<1, -55, 25690112, 0>>, <<1, -53, 24881010, 243174865>>>>,    \* 49/256: 0.7415119083493044
           <<<<1, -55, 26214400, 0>>, <<1, -53, 24805952, 224412036>>>>,    \* 50/256: 0.7392750035524362
           <<<<1, -55, 26738688, 0>>, <<1, -53, 24729611, 206847118>>>>,    \* 51/256: 0.7369998625089396
           <<<<1, -55, 27262976, 0>>, <<1, -53, 24652000, 258343649>>>>,    \* 52/256: 0.7346868801833716
           <<<<1, -55, 27787264, 0>>, <<1, -53, 24573133, 229584402>>>>,    \* 53/256: 0.7323364572307034
           <<<<1, -55, 28311552, 0>>, <<1, -53, 24493024, 21466360>>>>,    \* 54/256: 0.7299489998808033
           <<<<1, -55, 28835840, 0>>, <<1, -53, 24411685, 120919154>>>>,    \* 55/256: 0.7275249198215887
           <<<<1, -55, 29360128, 0>>, <<1, -53, 24329131, 257663712>>>>,    \* 56/256: 0.7250646340808906
           <<<<1, -55, 29884416, 0>>, <<1, -53, 24245377, 208443423>>>>,    \* 57/256: 0.7225685649070818
           <<<<1, -55, 30408704, 0>>, <<1, -53, 24160437, 64373656>>>>,    \* 58/256: 0.7200371396485137
           <<<<1, -55, 30932992, 0>>, <<1, -53, 24074324, 229845539>>>>,    \* 59/256: 0.7174707906318115
           <<<<1, -55, 31457280, 0>>, <<1, -53, 23987055, 79242599>>>>,    \* 60/256: 0.7148699550390746
           <<<<1, -55, 31981568, 0>>, <<1, -53, 23898643, 103308925>>>>,    \* 61/256: 0.7122350747840326
           <<<<1, -55, 32505856, 0>>, <<1, -53, 23809104, 28976509>>>>,    \* 62/256: 0.7095665963872048
           <<<<1, -55, 33030144, 0>>, <<1, -53, 23718452, 160409544>>>>,    \* 63/256: 0.7068649708501136
           <<<<1, -54, 16777216, 0>>, <<1, -53, 23626704, 35686061>>>>,    \* 64/256: 0.704130653528599
           <<<<1, -54, 17039360, 0>>, <<1, -53, 23533874, 36261959>>>>,    \* 65/256: 0.7013641040052868
           <<<<1, -54, 17301504, 0>>, <<1, -53, 23439978, 43637828>>>>,    \* 66/256: 0.6985657859612577
           <<<<1, -54, 17563648, 0>>, <<1, -53, 23345031, 243502684>>>>,    \* 67/256: 0.6957361670469697
           <<<<1, -54, 17825792, 0>>, <<1, -53, 23249051, 50823220>>>>,    \* 68/256: 0.692875718752481
           <<<<1, -54, 18087936, 0>>, <<1, -53, 23152051, 256152707>>>>,    \* 69/256: 0.689984916277027
           <<<<1, -54, 18350080, 0>>, <<1, -53, 23054050, 71660845>>>>,    \* 70/256: 0.6870642383979991
           <<<<1, -54, 18612224, 0>>, <<1, -53, 22955062, 82738715>>>>,    \* 71/256: 0.6841141673393766
           <<<<1, -54, 18874368, 0>>, <<1, -53, 22855104, 99325599>>>>,    \* 72/256: 0.6811351886396614
           <<<<1, -54, 19136512, 0>>, <<1, -53, 22754192, 228457257>>>>,    \* 73/256: 0.6781277910193683
           <<<<1, -54, 19398656, 0>>, <<1, -53, 22652344, 67762431>>>>,    \* 74/256: 0.6750924662481167
           <<<<1, -54, 19660800, 0>>, <<1, -53, 22549575, 46439897>>>>,    \* 75/256: 0.6720297090113788
           <<<<1, -54, 19922944, 0>>, <<1, -53, 22445902, 81878292>>>>,    \* 76/256: 0.6689400167769315
           <<<<1, -54, 20185088, 0>>, <<1, -53, 22341342, 115321923>>>>,    \* 77/256: 0.665823889661063
           <<<<1, -54, 20447232, 0>>, <<1, -53, 22235912, 110663902>>>>,    \* 78/256: 0.662681830294584
           <<<<1, -54, 20709376, 0>>, <<1, -53, 22129629, 53237974>>>>,    \* 79/256: 0.6595143436886939
           <<<<1, -54, 20971520, 0>>, <<1, -53, 22022509, 217044937>>>>,    \* 80/256: 0.6563219371007502
           <<<<1, -54, 21233664, 0>>, <<1, -53, 21914571, 89801367>>>>,    \* 81/256: 0.653105119899993
           <<<<1, -54, 21495808, 0>>, <<1, -53, 21805830, 250778383>>>>,    \* 82/256: 0.6498644034332716
           <<<<1, -54, 21757952, 0>>, <<1, -53, 21696305, 222109040>>>>,    \* 83/256: 0.6466003008908228
           <<<<1, -54, 22020096, 0>>, <<1, -53, 21586013, 78193015>>>>,    \* 84/256: 0.6433133271721506
           <<<<1, -54, 22282240, 0>>, <<1, -53, 21474970, 176054446>>>>,    \* 85/256: 0.6400039987520552
           <<<<1, -54, 22544384, 0>>, <<1, -53, 21363195, 80395183>>>>,    \* 86/256: 0.6366728335468589
           <<<<1, -54, 22806528, 0>>, <<1, -53, 21250704, 173004804>>>>,    \* 87/256: 0.633320350780878
           <<<<1, -54, 23068672, 0>>, <<1, -53, 21137516, 40947798>>>>,    \* 88/256: 0.6299470708531867
           <<<<1, -54, 23330816, 0>>, <<1, -53, 21023647, 85979288>>>>,    \* 89/256: 0.6265535152047219
           <<<<1, -54, 23592960, 0>>, <<1, -53, 20909115, 181174210>>>>,    \* 90/256: 0.6231402061857738
           <<<<1, -54, 23855104, 0>>, <<1, -53, 20793938, 206608598>>>>,    \* 91/256: 0.6197076669239105
           <<<<1, -54, 24117248, 0>>, <<1, -53, 20678134, 48174254>>>>,    \* 92/256: 0.6162564211923802
           <<<<1, -54, 24379392, 0>>, <<1, -53, 20561719, 133269072>>>>,    \* 93/256: 0.6127869932790393
           <<<<1, -54, 24641536, 0>>, <<1, -53, 20444712, 87444285>>>>,    \* 94/256: 0.6092999078558489
           <<<<1, -54, 24903680, 0>>, <<1, -53, 20327130, 75411806>>>>,    \* 95/256: 0.6057956898489854
           <<<<1, -54, 25165824, 0>>, <<1, -53, 20208990, 263009301>>>>,    \* 96/256: 0.6022748643096089
           <<<<1, -54, 25427968, 0>>, <<1, -53, 20090312, 10736124>>>>,    \* 97/256: 0.598737956285333
           <<<<1, -54, 25690112, 0>>, <<1, -53, 19971111, 20085969>>>>,    \* 98/256: 0.5951854906924386
           <<<<1, -54, 25952256, 0>>, <<1, -53, 19851405, 184919311>>>>,    \* 99/256: 0.5916179921888743
           <<<<1, -54, 26214400, 0>>, <<1, -53, 19731213, 127197868>>>>,    \* 100/256: 0.588035985048085
           <<<<1, -54, 26476544, 0>>, <<1, -53, 19610552, 1162348>>>>,    \* 101/256: 0.5844399930337096
           <<<<1, -54, 26738688, 0>>, <<1, -53, 19489438, 223776570>>>>,    \* 102/256: 0.5808305392751898
           <<<<1, -54, 27000832, 0>>, <<1, -53, 19367891, 131438314>>>>,    \* 103/256: 0.5772081461443268
           <<<<1, -54, 27262976, 0>>, <<1, -53, 19245927, 126360010>>>>,    \* 104/256: 0.5735733351328289
           <<<<1, -54, 27525120, 0>>, <<1, -53, 19123564, 64862302>>>>,    \* 105/256: 0.5699266267308862
           <<<<1, -54, 27787264, 0>>, <<1, -53, 19000819, 61596305>>>>,    \* 106/256: 0.5662685403068101
           <<<<1, -54, 28049408, 0>>, <<1, -53, 18877709, 220033981>>>>,    \* 107/256: 0.5625995939877765
           <<<<1, -54, 28311552, 0>>, <<1, -53, 18754253, 94533320>>>>,    \* 108/256: 0.5589203045417088
           <<<<1, -54, 28573696, 0>>, <<1, -53, 18630467, 31462291>>>>,    \* 109/256: 0.5552311872603347
           <<<<1, -54, 28835840, 0>>, <<1, -53, 18506368, 94414599>>>>,    \* 110/256: 0.5515327558434543
           <<<<1, -54, 29097984, 0>>, <<1, -53, 18381974, 63178466>>>>,    \* 111/256: 0.5478255222844519
           <<<<1, -54, 29360128, 0>>, <<1, -53, 18257301, 238023302>>>>,    \* 112/256: 0.544109996757087
           <<<<1, -54, 29622272, 0>>, <<1, -53, 18132368, 96514531>>>>,    \* 113/256: 0.5403866875035955
           <<<<1, -54, 29884416, 0>>, <<1, -53, 18007190, 171565984>>>>,    \* 114/256: 0.5366561007241337
           <<<<1, -54, 30146560, 0>>, <<1, -53, 17881785, 171408286>>>>,    \* 115/256: 0.5329187404675968
           <<<<1, -54, 30408704, 0>>, <<1, -53, 17756170, 52359915>>>>,    \* 116/256: 0.5291751085238422
           <<<<1, -54, 30670848, 0>>, <<1, -53, 17630361, 17869351>>>>,    \* 117/256: 0.5254257043173468
           <<<<1, -54, 30932992, 0>>, <<1, -53, 17504374, 249134947>>>>,    \* 118/256: 0.5216710248023272
           <<<<1, -54, 31195136, 0>>, <<1, -53, 17378228, 98867326>>>>,    \* 119/256: 0.5179115643593517
           <<<<1, -54, 31457280, 0>>, <<1, -53, 17251937, 237855456>>>>,    \* 120/256: 0.5141478146934695
           <<<<1, -54, 31719424, 0>>, <<1, -53, 17125519, 238143897>>>>,    \* 121/256: 0.5103802647338852
           <<<<1, -54, 31981568, 0>>, <<1, -53, 16998990, 182756026>>>>,    \* 122/256: 0.5066094005352035
           <<<<1, -54, 32243712, 0>>, <<1, -53, 16872366, 127947971>>>>,    \* 123/256: 0.5028357051802675
           <<<<1, -54, 32505856, 0>>, <<1, -54, 33491326, 204696089>>>>,    \* 124/256: 0.4990596586846166
           <<<<1, -54, 32768000, 0>>, <<1, -54, 33237794, 212221911>>>>,    \* 125/256: 0.49528173790258506
           <<<<1, -54, 33030144, 0>>, <<1, -54, 32984168, 220174002>>>>,    \* 126/256: 0.491502416435064
           <<<<1, -54, 33292288, 0>>, <<1, -54, 32730480, 110012873>>>>,    \* 127/256: 0.48772216453894807
           <<<<1, -53, 16777216, 0>>, <<1, -54, 32476760, 238229304>>>>}    \* 128/256: 0.48394144903828673
      [] sigma = <<1, -53, 20132659, 53687091>> ->    \* sigma = 0.6
          {<<zero, <<1, -53, 22310469, 98271897>>>>,    \* sqrt(0): 0.6649038006690545
           <<<<1, -52, 16777216, 0>>, <<1, -55, 22252659, 70107910>>>>,    \* sqrt(1): 0.1657952313212478
           <<<<1, -52, 23726566, 109001677>>, <<1, -57, 22194998, 255488138>>>>,    \* sqrt(2): 0.041341407134695876
           <<<<1, -51, 16777216, 0>>, <<1, -61, 22080126, 45077474>>>>,    \* sqrt(4): 0.002570464993818509
           <<<<1, -51, 18757497, 194507944>>, <<1, -63, 22022912, 247018479>>>>,    \* sqrt(5): 0.0006409511237933633
           <<<<1, -51, 23726566, 109001677>>, <<1, -69, 21852161, 36313987>>>>,    \* sqrt(8): 9.937212387412794e-06
           <<<<1, -51, 25165824, 0>>, <<1, -71, 21795538, 156379232>>>>,    \* sqrt(9): 2.4778658578904965e-06
           <<<<1, -51, 26527107, 182082387>>, <<1, -73, 21739062, 200845131>>>>,    \* sqrt(10): 6.178613247188428e-07
           <<<<1, -51, 30245556, 73488883>>, <<1, -79, 21570511, 203630782>>>>,    \* sqrt(13): 9.579231522930954e-09
           <<<<1, -50, 17794924, 215968985>>, <<1, -89, 21292492, 139689773>>>>}    \* sqrt(18): 9.23414665929309e-12
      [] sigma = <<1, -53, 23488102, 107374182>> ->    \* sigma = 0.7
          {<<zero, <<1, -53, 19123259, 122580977>>>>,    \* sqrt(0): 0.5699175434306182
           <<<<1, -52, 16777216, 0>>, <<1, -55, 27571746, 87973559>>>>,    \* sqrt(1): 0.20542551821266894
           <<<<1, -52, 23726566, 109001677>>, <<1, -56, 19876349, 263930732>>>>,    \* sqrt(2): 0.07404517376131786
           <<<<1, -51, 16777216, 0>>, <<1, -59, 20659097, 232795790>>>>,    \* sqrt(4): 0.009620142107471776
           <<<<1, -51, 18757497, 194507944>>, <<1, -61, 29786104, 151042928>>>>,    \* sqrt(5): 0.0034675589486349787
           <<<<1, -51, 23726566, 109001677>>, <<1, -65, 22318283, 115833308>>>>,    \* sqrt(8): 0.00016238688426901862
           <<<<1, -51, 25165824, 0>>, <<1, -67, 32178303, 169853249>>>>,    \* sqrt(9): 5.853199333205823e-05
           <<<<1, -51, 26527107, 182082387>>, <<1, -68, 23197196, 206832149>>>>,    \* sqrt(10): 2.1097727558762743e-05
           <<<<1, -51, 30245556, 73488883>>, <<1, -72, 17381313, 53046719>>>>,    \* sqrt(13): 9.880132664428872e-07
           <<<<1, -50, 17794924, 215968985>>, <<1, -80, 27072874, 261113237>>>>}    \* sqrt(18): 6.011385827502959e-09
      [] sigma = <<1, -53, 26843545, 161061274>> ->    \* sigma = 0.8
          {<<zero, <<1, -54, 33465704, 13190117>>>>,    \* sqrt(0): 0.49867785050179086
           <<<<1, -52, 16777216, 0>>, <<1, -55, 30643431, 155086074>>>>,    \* sqrt(1): 0.2283113567362774
           <<<<1, -52, 23726566, 109001677>>, <<1, -56, 28059170, 158621431>>>>,    \* sqrt(2): 0.10452855598520815
           <<<<1, -51, 16777216, 0>>, <<1, -58, 23526086, 182396652>>>>,    \* sqrt(4): 0.021910375616960673
           <<<<1, -51, 18757497, 194507944>>, <<1, -59, 21542054, 189943284>>>>,    \* sqrt(5): 0.010031300926391908
           <<<<1, -51, 23726566, 109001677>>, <<1, -63, 33077251, 129749779>>>>,    \* sqrt(8): 0.0009626747191463246
           <<<<1, -51, 25165824, 0>>, <<1, -64, 30287738, 131420534>>>>,    \* sqrt(9): 0.0004407446029593068
           <<<<1, -51, 26527107, 182082387>>, <<1, -65, 27733474, 71481005>>>>,    \* sqrt(10): 0.0002017875832555546
           <<<<1, -51, 30245556, 73488883>>, <<1, -68, 21292005, 185198077>>>>,    \* sqrt(13): 1.936496636509819e-05
           <<<<1, -50, 17794924, 215968985>>, <<1, -74, 27411558, 122398976>>>>}    \* sqrt(18): 3.8954167473508104e-07
      [] sigma = <<1, -53, 30198988, 214748365>> ->    \* sigma = 0.9
          {<<zero, <<1, -54, 29747292, 131029196>>>>,    \* sqrt(0): 0.44326920044603635
           <<<<1, -52, 16777216, 0>>, <<1, -55, 32091825, 208352274>>>>,    \* sqrt(1): 0.23910273444781233
           <<<<1, -52, 23726566, 109001677>>, <<1, -55, 17310571, 199884966>>>>,    \* sqrt(2): 0.1289738099621946
           <<<<1, -51, 16777216, 0>>, <<1, -57, 20146767, 158936309>>>>,    \* sqrt(4): 0.037526278928078506
           <<<<1, -51, 18757497, 194507944>>, <<1, -58, 21734635, 99719351>>>>,    \* sqrt(5): 0.02024195657249869
           <<<<1, -51, 23726566, 109001677>>, <<1, -61, 27289357, 39047225>>>>,    \* sqrt(8): 0.003176899294539151
           <<<<1, -51, 25165824, 0>>, <<1, -62, 29440168, 60103305>>>>,    \* sqrt(9): 0.0017136433292123407
           <<<<1, -51, 26527107, 182082387>>, <<1, -63, 31760495, 136532441>>>>,    \* sqrt(10): 0.0009243520765048154
           <<<<1, -51, 30245556, 73488883>>, <<1, -65, 19938763, 110690947>>>>,    \* sqrt(13): 0.0001450735974675329
           <<<<1, -50, 17794924, 215968985>>, <<1, -70, 29136214, 227375661>>>>}    \* sqrt(18): 6.62480825827523e-06
      [] sigma = <<1, -52, 16777216, 0>> ->    \* sigma = 1.0
          {<<zero, <<1, -54, 26772563, 64239185>>>>,    \* sqrt(0): 0.3989422804014327
           <<<<1, -52, 16777216, 0>>, <<1, -55, 32476760, 238229304>>>>,    \* sqrt(1): 0.24197072451914337
           <<<<1, -52, 23726566, 109001677>>, <<1, -55, 19698151, 55407396>>>>,    \* sqrt(2): 0.14676266317373987
           <<<<1, -51, 16777216, 0>>, <<1, -57, 28986179, 115882710>>>>,    \* sqrt(4): 0.05399096651318806
           <<<<1, -51, 18757497, 194507944>>, <<1, -57, 17581006, 143144758>>>>,    \* sqrt(5): 0.03274717653776664
           <<<<1, -51, 23726566, 109001677>>, <<1, -60, 31382822, 114538083>>>>,    \* sqrt(8): 0.007306882745280771
           <<<<1, -51, 25165824, 0>>, <<1, -60, 19034643, 265778825>>>>,    \* sqrt(9): 0.0044318484119380075
           <<<<1, -51, 26527107, 182082387>>, <<1, -61, 23090190, 94871771>>>>,    \* sqrt(10): 0.002688051941039144
           <<<<1, -51, 30245556, 73488883>>, <<1, -63, 20608471, 130370978>>>>,    \* sqrt(13): 0.000599785460091363
           <<<<1, -50, 17794924, 215968985>>, <<1, -67, 27066341, 176273444>>>>,    \* sqrt(18): 4.923338866623408e-05
           <<<<1, -60, 16777216, 0>>, <<1, -54, 26772358, 263507311>>>>,    \* 1/256: 0.39893923672499104
           <<<<1, -59, 16777216, 0>>, <<1, -54, 26771746, 58515217>>>>,    \* 2/256: 0.3989301058349933
           <<<<1, -59, 25165824, 0>>, <<1, -54, 26770724, 262098767>>>>,    \* 3/256: 0.3989148881494104
           <<<<1, -58, 16777216, 0>>, <<1, -54, 26769295, 81500115>>>>,    \* 4/256: 0.3988935843648253
           <<<<1, -58, 20971520, 0>>, <<1, -54, 26767457, 71156764>>>>,    \* 5/256: 0.3988661954563797
           <<<<1, -58, 25165824, 0>>, <<1, -54, 26765210, 253652032>>>>,    \* 6/256: 0.39883272267769954
           <<<<1, -58, 29360128, 0>>, <<1, -54, 26762556, 119713333>>>>,    \* 7/256: 0.3987931675607997
           <<<<1, -57, 16777216, 0>>, <<1, -54, 26759493, 238822803>>>>,    \* 8/256: 0.39874753191596674
           <<<<1, -57, 18874368, 0>>, <<1, -54, 26756023, 111731168>>>>,    \* 9/256: 0.3986958178316211
           <<<<1, -57, 20971520, 0>>, <<1, -54, 26752145, 49503064>>>>,    \* 10/256: 0.3986380276741577
           <<<<1, -57, 23068672, 0>>, <<1, -54, 26747859, 99771967>>>>,    \* 11/256: 0.3985741640877655
           <<<<1, -57, 25165824, 0>>, <<1, -54, 26743166, 46736554>>>>,    \* 12/256: 0.39850422999422597
           <<<<1, -57, 27262976, 0>>, <<1, -54, 26738065, 216463059>>>>,    \* 13/256: 0.39842822859268984
           <<<<1, -57, 29360128, 0>>, <<1, -54, 26732558, 134703606>>>>,    \* 14/256: 0.39834616335943396
           <<<<1, -57, 31457280, 0>>, <<1, -54, 26726644, 137504161>>>>,    \* 15/256: 0.3982580380475956
           <<<<1, -56, 16777216, 0>>, <<1, -54, 26720324, 29022105>>>>,    \* 16/256: 0.39816385668688664
           <<<<1, -56, 17825792, 0>>, <<1, -54, 26713597, 155262524>>>>,    \* 17/256: 0.3980636235832866
           <<<<1, -56, 18874368, 0>>, <<1, -54, 26706465, 61895019>>>>,    \* 18/256: 0.3979573433187144
           <<<<1, -56, 19922944, 0>>, <<1, -54, 26698927, 104860151>>>>,    \* 19/256: 0.3978450207506791
           <<<<1, -56, 20971520, 0>>, <<1, -54, 26690984, 108185499>>>>,    \* 20/256: 0.3977266610119103
           <<<<1, -56, 22020096, 0>>, <<1, -54, 26682636, 169284981>>>>,    \* 21/256: 0.39760226950996663
           <<<<1, -56, 23068672, 0>>, <<1, -54, 26673884, 122080531>>>>,    \* 22/256: 0.3974718519268247
           <<<<1, -56, 24117248, 0>>, <<1, -54, 26664728, 73865213>>>>,    \* 23/256: 0.39733541421844604
           <<<<1, -56, 25165824, 0>>, <<1, -54, 26655168, 136859601>>>>,    \* 24/256: 0.39719296261432385
           <<<<1, -56, 26214400, 0>>, <<1, -54, 26645205, 159767782>>>>,    \* 25/256: 0.39704450361700905
           <<<<1, -56, 27262976, 0>>, <<1, -54, 26634839, 264639359>>>>,    \* 26/256: 0.3968900440016156
           <<<<1, -56, 28311552, 0>>, <<1, -54, 26624072, 41553798>>>>,    \* 27/256: 0.3967295908153051
           <<<<1, -56, 29360128, 0>>, <<1, -54, 26612902, 159223507>>>>,    \* 28/256: 0.39656315137675086
           <<<<1, -56, 30408704, 0>>, <<1, -54, 26601331, 217500175>>>>,    \* 29/256: 0.3963907332755818
           <<<<1, -56, 31457280, 0>>, <<1, -54, 26589360, 89541652>>>>,    \* 30/256: 0.3962123443718053
           <<<<1, -56, 32505856, 0>>, <<1, -54, 26576988, 190236649>>>>,    \* 31/256: 0.3960279927952102
           <<<<1, -55, 16777216, 0>>, <<1, -54, 26564217, 134016340>>>>,    \* 32/256: 0.3958376869447495
           <<<<1, -55, 17301504, 0>>, <<1, -54, 26551047, 77020145>>>>,    \* 33/256: 0.39564143548790215
           <<<<1, -55, 17825792, 0>>, <<1, -54, 26537478, 180212974>>>>,    \* 34/256: 0.39543924736001557
           <<<<1, -55, 18350080, 0>>, <<1, -54, 26523512, 72502093>>>>,    \* 35/256: 0.3952311317636273
           <<<<1, -55, 18874368, 0>>, <<1, -54, 26509148, 192901834>>>>,    \* 36/256: 0.3950170981677671
           <<<<1, -55, 19398656, 0>>, <<1, -54, 26494388, 179907921>>>>,    \* 37/256: 0.39479715630723883
           <<<<1, -55, 19922944, 0>>, <<1, -54, 26479232, 213661461>>>>,    \* 38/256: 0.39457131618188274
           <<<<1, -55, 20447232, 0>>, <<1, -54, 26463681, 210628920>>>>,    \* 39/256: 0.39433958805581737
           <<<<1, -55, 20971520, 0>>, <<1, -54, 26447736, 92023578>>>>,    \* 40/256: 0.3941019824566624
           <<<<1, -55, 21495808, 0>>, <<1, -54, 26431397, 52226623>>>>,    \* 41/256: 0.3938585101747413
           <<<<1, -55, 22020096, 0>>, <<1, -54, 26414665, 21901528>>>>,    \* 42/256: 0.39360918226226493
           <<<<1, -55, 22544384, 0>>, <<1, -54, 26397540, 204849902>>>>,    \* 43/256: 0.39335401003249515
           <<<<1, -55, 23068672, 0>>, <<1, -54, 26380025, 4254251>>>>,    \* 44/256: 0.3930930050588894
           <<<<1, -55, 23592960, 0>>, <<1, -54, 26362118, 170145867>>>>,    \* 45/256: 0.39282617917422574
           <<<<1, -55, 24117248, 0>>, <<1, -54, 26343822, 115034166>>>>,    \* 46/256: 0.39255354446970914
           <<<<1, -55, 24641536, 0>>, <<1, -54, 26325137, 61373882>>>>,    \* 47/256: 0.39227511329405795
           <<<<1, -55, 25165824, 0>>, <<1, -54, 26306063, 236241908>>>>,    \* 48/256: 0.39199089825257194
           <<<<1, -55, 25690112, 0>>, <<1, -54, 26286603, 66013796>>>>,    \* 49/256: 0.3917009122061812
           <<<<1, -55, 26214400, 0>>, <<1, -54, 26266756, 55394475>>>>,    \* 50/256: 0.39140516827047617
           <<<<1, -55, 26738688, 0>>, <<1, -54, 26246523, 176787711>>>>,    \* 51/256: 0.39110367981471933
           <<<<1, -55, 27262976, 0>>, <<1, -54, 26225906, 138713412>>>>,    \* 52/256: 0.3907964604608376
           <<<<1, -55, 27787264, 0>>, <<1, -54, 26204905, 191095522>>>>,    \* 53/256: 0.39048352408239684
           <<<<1, -55, 28311552, 0>>, <<1, -54, 26183522, 51501388>>>>,    \* 54/256: 0.3901648848035577
           <<<<1, -55, 28835840, 0>>, <<1, -54, 26161756, 247299903>>>>,    \* 55/256: 0.3898405569980134
           <<<<1, -55, 29360128, 0>>, <<1, -54, 26139610, 236593848>>>>,    \* 56/256: 0.389510555287909
           <<<<1, -55, 29884416, 0>>, <<1, -54, 26117085, 18812833>>>>,    \* 57/256: 0.38917489454274273
           <<<<1, -55, 30408704, 0>>, <<1, -54, 26094180, 134693190>>>>,    \* 58/256: 0.3888335898782497
           <<<<1, -55, 30932992, 0>>, <<1, -54, 26070898, 55644795>>>>,    \* 59/256: 0.3884866566552671
           <<<<1, -55, 31457280, 0>>, <<1, -54, 26047239, 62778512>>>>,    \* 60/256: 0.3881341104785827
           <<<<1, -55, 31981568, 0>>, <<1, -54, 26023204, 173143293>>>>,    \* 61/256: 0.3877759671957646
           <<<<1, -55, 32505856, 0>>, <<1, -54, 25998795, 139704800>>>>,    \* 62/256: 0.38741224289597476
           <<<<1, -55, 33030144, 0>>, <<1, -54, 25974012, 256630063>>>>,    \* 63/256: 0.3870429539087636
           <<<<1, -54, 16777216, 0>>, <<1, -54, 25948858, 17088206>>>>,    \* 64/256: 0.3866681168028493
           <<<<1, -54, 17039360, 0>>, <<1, -54, 25923331, 260711767>>>>,    \* 65/256: 0.3862877483848783
           <<<<1, -54, 17301504, 0>>, <<1, -54, 25897435, 220784075>>>>,    \* 66/256: 0.38590186569817025
           <<<<1, -54, 17563648, 0>>, <<1, -54, 25871170, 208570870>>>>,    \* 67/256: 0.3855104860214448
           <<<<1, -54, 17825792, 0>>, <<1, -54, 25844538, 2684357>>>>,    \* 68/256: 0.38511362686753287
           <<<<1, -54, 18087936, 0>>, <<1, -54, 25817538, 191236954>>>>,    \* 69/256: 0.3847113059820707
           <<<<1, -54, 18350080, 0>>, <<1, -54, 25790174, 24333828>>>>,    \* 70/256: 0.3843035413421776
           <<<<1, -54, 18612224, 0>>, <<1, -54, 25762445, 98403344>>>>,    \* 71/256: 0.3838903511551175
           <<<<1, -54, 18874368, 0>>, <<1, -54, 25734353, 208689016>>>>,    \* 72/256: 0.38347175385694454
           <<<<1, -54, 19136512, 0>>, <<1, -54, 25705900, 154531179>>>>,    \* 73/256: 0.3830477681111321
           <<<<1, -54, 19398656, 0>>, <<1, -54, 25677087, 7777473>>>>,    \* 74/256: 0.3826184128071866
           <<<<1, -54, 19660800, 0>>, <<1, -54, 25647914, 112757583>>>>,    \* 75/256: 0.38218370705924526
           <<<<1, -54, 19922944, 0>>, <<1, -54, 25618384, 12515873>>>>,    \* 76/256: 0.3817436702046582
           <<<<1, -54, 20185088, 0>>, <<1, -54, 25588497, 59398305>>>>,    \* 77/256: 0.38129832180255546
           <<<<1, -54, 20447232, 0>>, <<1, -54, 25558255, 72849067>>>>,    \* 78/256: 0.3808476816323984
           <<<<1, -54, 20709376, 0>>, <<1, -54, 25527659, 144690577>>>>,    \* 79/256: 0.38039176969251637
           <<<<1, -54, 20971520, 0>>, <<1, -54, 25496711, 102225931>>>>,    \* 80/256: 0.3799306061986278
           <<<<1, -54, 21233664, 0>>, <<1, -54, 25465412, 45082920>>>>,    \* 81/256: 0.3794642115823472
           <<<<1, -54, 21495808, 0>>, <<1, -54, 25433763, 76751403>>>>,    \* 82/256: 0.3789926064896771
           <<<<1, -54, 21757952, 0>>, <<1, -54, 25401766, 36120424>>>>,    \* 83/256: 0.3785158117794851
           <<<<1, -54, 22020096, 0>>, <<1, -54, 25369422, 34321443>>>>,    \* 84/256: 0.3780338485219678
           <<<<1, -54, 22282240, 0>>, <<1, -54, 25336732, 186264931>>>>,    \* 85/256: 0.37754673799709887
           <<<<1, -54, 22544384, 0>>, <<1, -54, 25303699, 73741272>>>>,    \* 86/256: 0.37705450169306465
           <<<<1, -54, 22806528, 0>>, <<1, -54, 25270323, 87569590>>>>,    \* 87/256: 0.37655716130468464
           <<<<1, -54, 23068672, 0>>, <<1, -54, 25236606, 85391787>>>>,    \* 88/256: 0.3760547387318193
           <<<<1, -54, 23330816, 0>>, <<1, -54, 25202549, 196949971>>>>,    \* 89/256: 0.3755472560777637
           <<<<1, -54, 23592960, 0>>, <<1, -54, 25168155, 18750911>>>>,    \* 90/256: 0.3750347356476275
           <<<<1, -54, 23855104, 0>>, <<1, -54, 25133423, 224649362>>>>,    \* 91/256: 0.37451719994670285
           <<<<1, -54, 24117248, 0>>, <<1, -54, 25098357, 149899311>>>>,    \* 92/256: 0.373994671678818
           <<<<1, -54, 24379392, 0>>, <<1, -54, 25062957, 207043199>>>>,    \* 93/256: 0.3734671737446788
           <<<<1, -54, 24641536, 0>>, <<1, -54, 25027226, 6833620>>>>,    \* 94/256: 0.3729347292401972
           <<<<1, -54, 24903680, 0>>, <<1, -54, 24991163, 237251176>>>>,    \* 95/256: 0.3723973614548073
           <<<<1, -54, 25165824, 0>>, <<1, -54, 24954772, 247554817>>>>,    \* 96/256: 0.37185509386976895
           <<<<1, -54, 25427968, 0>>, <<1, -54, 24918054, 195734707>>>>,    \* 97/256: 0.3713079501564593
           <<<<1, -54, 25690112, 0>>, <<1, -54, 24881010, 243174865>>>>,    \* 98/256: 0.3707559541746522
           <<<<1, -54, 25952256, 0>>, <<1, -54, 24843643, 17751041>>>>,    \* 99/256: 0.3701991299707857
           <<<<1, -54, 26214400, 0>>, <<1, -54, 24805952, 224412036>>>>,    \* 100/256: 0.3696375017762181
           <<<<1, -54, 26476544, 0>>, <<1, -54, 24767941, 229228974>>>>,    \* 101/256: 0.36907109400547256
           <<<<1, -54, 26738688, 0>>, <<1, -54, 24729611, 206847118>>>>,    \* 102/256: 0.3684999312544698
           <<<<1, -54, 27000832, 0>>, <<1, -54, 24690964, 66712018>>>>,    \* 103/256: 0.3679240382987504
           <<<<1, -54, 27262976, 0>>, <<1, -54, 24652000, 258343649>>>>,    \* 104/256: 0.3673434400916858
           <<<<1, -54, 27525120, 0>>, <<1, -54, 24612723, 160691260>>>>,    \* 105/256: 0.3667581617626785
           <<<<1, -54, 27787264, 0>>, <<1, -54, 24573133, 229584402>>>>,    \* 106/256: 0.3661682286153517
           <<<<1, -54, 28049408, 0>>, <<1, -54, 24533233, 118651943>>>>,    \* 107/256: 0.36557366612572867
           <<<<1, -54, 28311552, 0>>, <<1, -54, 24493024, 21466360>>>>,    \* 108/256: 0.36497449994040165
           <<<<1, -54, 28573696, 0>>, <<1, -54, 24452507, 134639667>>>>,    \* 109/256: 0.3643707558746911
           <<<<1, -54, 28835840, 0>>, <<1, -54, 24411685, 120919154>>>>,    \* 110/256: 0.36376245991079437
           <<<<1, -54, 29097984, 0>>, <<1, -54, 24370559, 182895698>>>>,    \* 111/256: 0.3631496381959255
           <<<<1, -54, 29360128, 0>>, <<1, -54, 24329131, 257663712>>>>,    \* 112/256: 0.3625323170404453
           <<<<1, -54, 29622272, 0>>, <<1, -54, 24287404, 16787278>>>>,    \* 113/256: 0.36191052291598147
           <<<<1, -54, 29884416, 0>>, <<1, -54, 24245377, 208443423>>>>,    \* 114/256: 0.3612842824535409
           <<<<1, -54, 30146560, 0>>, <<1, -54, 24203054, 241468821>>>>,    \* 115/256: 0.36065362244161153
           <<<<1, -54, 30408704, 0>>, <<1, -54, 24160437, 64373656>>>>,    \* 116/256: 0.36001856982425684
           <<<<1, -54, 30670848, 0>>, <<1, -54, 24117526, 165307131>>>>,    \* 117/256: 0.35937915169920104
           <<<<1, -54, 30932992, 0>>, <<1, -54, 24074324, 229845539>>>>,    \* 118/256: 0.35873539531590576
           <<<<1, -54, 31195136, 0>>, <<1, -54, 24030833, 214699307>>>>,    \* 119/256: 0.35808732807363935
           <<<<1, -54, 31457280, 0>>, <<1, -54, 23987055, 79242599>>>>,    \* 120/256: 0.3574349775195373
           <<<<1, -54, 31719424, 0>>, <<1, -54, 23942991, 53913707>>>>,    \* 121/256: 0.35677837134665563
           <<<<1, -54, 31981568, 0>>, <<1, -54, 23898643, 103308925>>>>,    \* 122/256: 0.3561175373920163
           <<<<1, -54, 32243712, 0>>, <<1, -54, 23854013, 194582659>>>>,    \* 123/256: 0.3554525036346449
           <<<<1, -54, 32505856, 0>>, <<1, -54, 23809104, 28976509>>>>,    \* 124/256: 0.3547832981936024
           <<<<1, -54, 32768000, 0>>, <<1, -54, 23763916, 115525483>>>>,    \* 125/256: 0.354109949326008
           <<<<1, -54, 33030144, 0>>, <<1, -54, 23718452, 160409544>>>>,    \* 126/256: 0.3534324854250568
           <<<<1, -54, 33292288, 0>>, <<1, -54, 23672714, 140659595>>>>,    \* 127/256: 0.3527509350180302
           <<<<1, -53, 16777216, 0>>, <<1, -54, 23626704, 35686061>>>>}    \* 128/256: 0.3520653267642995
      [] sigma = <<1, -54, 20132659, 53687092>> ->    \* sigma = 0.30000000000000004
          {<<zero, <<1, -52, 22310469, 98271896>>>>,    \* sqrt(0): 1.3298076013381088
           <<<<1, -52, 16777216, 0>>, <<1, -60, 22080126, 45077484>>>>,    \* sqrt(1): 0.005140929987637027
           <<<<1, -52, 23726566, 109001677>>, <<1, -68, 21852161, 36314006>>>>,    \* sqrt(2): 1.987442477482565e-05
           <<<<1, -51, 16777216, 0>>, <<1, -84, 21403267, 162964676>>>>,    \* sqrt(4): 2.970300062450738e-10
           <<<<1, -51, 18757497, 194507944>>, <<1, -92, 21182290, 204803135>>>>,    \* sqrt(5): 1.1482942831705625e-12
           <<<<1, -51, 23726566, 109001677>>, <<1, -116, 20532955, 8878324>>>>,    \* sqrt(8): 6.634555594446172e-20
           <<<<1, -51, 25165824, 0>>, <<1, -124, 20320963, 183240664>>>>,    \* sqrt(9): 2.564866208902176e-22
           <<<<1, -51, 26527107, 182082387>>, <<1, -132, 20111161, 6727878>>>>,    \* sqrt(10): 9.915567932048103e-25
           <<<<1, -51, 30245556, 73488883>>, <<1, -156, 19494660, 108296318>>>>,    \* sqrt(13): 5.72896579385926e-32
           <<<<1, -50, 17794924, 215968985>>, <<1, -196, 18508869, 122304186>>>>}    \* sqrt(18): 4.946985310468074e-44
      [] sigma = <<1, -52, 18454937, 161061274>> ->    \* sigma = 1.1
          {<<zero, <<1, -54, 24338693, 229221821>>>>,    \* sqrt(0): 0.36267480036493877
           <<<<1, -52, 16777216, 0>>, <<1, -55, 32200805, 98639294>>>>,    \* sqrt(1): 0.23991469567611817
           <<<<1, -52, 23726566, 109001677>>, <<1, -55, 21301304, 181002763>>>>,    \* sqrt(2): 0.1587070872954118
           <<<<1, -51, 16777216, 0>>, <<1, -56, 18642971, 188933653>>>>,    \* sqrt(4): 0.06945048162278795
           <<<<1, -51, 18757497, 194507944>>, <<1, -57, 24665198, 3726916>>>>,    \* sqrt(5): 0.04594251143538178
           <<<<1, -51, 23726566, 109001677>>, <<1, -59, 28560316, 4463089>>>>,    \* sqrt(8): 0.013299433522218048
           <<<<1, -51, 25165824, 0>>, <<1, -59, 18893067, 165081329>>>>,    \* sqrt(9): 0.008797770186781824
           <<<<1, -51, 26527107, 182082387>>, <<1, -60, 24996082, 63072190>>>>,    \* sqrt(10): 0.005819853915591309
           <<<<1, -51, 30245556, 73488883>>, <<1, -62, 28943453, 90956728>>>>,    \* sqrt(13): 0.0016847307176119774
           <<<<1, -50, 17794924, 215968985>>, <<1, -65, 29331730, 122780237>>>>}    \* sqrt(18): 0.0002134164275586374
      [] sigma = <<1, -51, 16777216, 0>> ->    \* sigma = 2.0
          {<<zero, <<1, -55, 26772563, 64239185>>>>,    \* sqrt(0): 0.19947114020071635
           <<<<1, -52, 16777216, 0>>, <<1, -55, 23626704, 35686061>>>>,    \* sqrt(1): 0.17603266338214976
           <<<<1, -52, 23726566, 109001677>>, <<1, -55, 20850493, 57875499>>>>,    \* sqrt(2): 0.1553482801884639
           <<<<1, -51, 16777216, 0>>, <<1, -56, 32476760, 238229304>>>>,    \* sqrt(4): 0.12098536225957168
           <<<<1, -51, 18757497, 194507944>>, <<1, -56, 28660640, 238686293>>>>,    \* sqrt(5): 0.1067692074521472
           <<<<1, -51, 23726566, 109001677>>, <<1, -56, 19698151, 55407396>>>>,    \* sqrt(8): 0.07338133158686994
           <<<<1, -51, 25165824, 0>>, <<1, -56, 17383557, 114433669>>>>,    \* sqrt(9): 0.06475879783294587
           <<<<1, -51, 26527107, 182082387>>, <<1, -57, 30681871, 45424640>>>>,    \* sqrt(10): 0.05714943850267673
           <<<<1, -51, 30245556, 73488883>>, <<1, -57, 21087321, 28950958>>>>,    \* sqrt(13): 0.03927819637181372
           <<<<1, -50, 17794924, 215968985>>, <<1, -58, 22574459, 64331544>>>>,    \* sqrt(18): 0.02102410349962644
           <<<<1, -60, 16777216, 0>>, <<1, -55, 26772512, 46908135>>>>,    \* 1/256: 0.19947075974007264
           <<<<1, -59, 16777216, 0>>, <<1, -55, 26772358, 263507311>>>>,    \* 2/256: 0.19946961836249552
           <<<<1, -59, 25165824, 0>>, <<1, -55, 26772103, 177636408>>>>,    \* 3/256: 0.19946771608104696
           <<<<1, -58, 16777216, 0>>, <<1, -55, 26771746, 58515217>>>>,    \* 4/256: 0.19946505291749664
           <<<<1, -58, 20971520, 0>>, <<1, -55, 26771286, 175677242>>>>,    \* 5/256: 0.1994616289023215
           <<<<1, -58, 25165824, 0>>, <<1, -55, 26770724, 262098767>>>>,    \* 6/256: 0.1994574440747052
           <<<<1, -58, 29360128, 0>>, <<1, -55, 26770061, 51069742>>>>,    \* 7/256: 0.19945249848253738
           <<<<1, -57, 16777216, 0>>, <<1, -55, 26769295, 81500115>>>>,    \* 8/256: 0.19944679218241265
           <<<<1, -57, 18874368, 0>>, <<1, -55, 26768427, 87307063>>>>,    \* 9/256: 0.1994403252396297
           <<<<1, -57, 20971520, 0>>, <<1, -55, 26767457, 71156764>>>>,    \* 10/256: 0.19943309772818985
           <<<<1, -57, 23068672, 0>>, <<1, -55, 26766385, 36028896>>>>,    \* 11/256: 0.19942510973079575
           <<<<1, -57, 25165824, 0>>, <<1, -55, 26765210, 253652032>>>>,    \* 12/256: 0.19941636133884977
           <<<<1, -57, 27262976, 0>>, <<1, -55, 26763934, 190761758>>>>,    \* 13/256: 0.19940685265245234
           <<<<1, -57, 29360128, 0>>, <<1, -55, 26762556, 119713333>>>>,    \* 14/256: 0.19939658378039984
           <<<<1, -57, 31457280, 0>>, <<1, -55, 26761076, 44739798>>>>,    \* 15/256: 0.19938555484018278
           <<<<1, -56, 16777216, 0>>, <<1, -55, 26759493, 238822803>>>>,    \* 16/256: 0.19937376595798337
           <<<<1, -56, 17825792, 0>>, <<1, -55, 26757809, 169950696>>>>,    \* 17/256: 0.19936121726867317
           <<<<1, -56, 18874368, 0>>, <<1, -55, 26756023, 111731168>>>>,    \* 18/256: 0.19934790891581056
           <<<<1, -56, 19922944, 0>>, <<1, -55, 26754135, 69649329>>>>,    \* 19/256: 0.1993338410516379
           <<<<1, -56, 20971520, 0>>, <<1, -55, 26752145, 49503064>>>>,    \* 20/256: 0.19931901383707884
           <<<<1, -56, 22020096, 0>>, <<1, -55, 26750053, 57402914>>>>,    \* 21/256: 0.19930342744173496
           <<<<1, -56, 23068672, 0>>, <<1, -55, 26747859, 99771967>>>>,    \* 22/256: 0.19928708204388276
           <<<<1, -56, 24117248, 0>>, <<1, -55, 26745563, 183345731>>>>,    \* 23/256: 0.19926997783047015
           <<<<1, -56, 25165824, 0>>, <<1, -55, 26743166, 46736554>>>>,    \* 24/256: 0.19925211499711298
           <<<<1, -56, 26214400, 0>>, <<1, -55, 26740666, 234175306>>>>,    \* 25/256: 0.19923349374809113
           <<<<1, -56, 27262976, 0>>, <<1, -55, 26738065, 216463059>>>>,    \* 26/256: 0.19921411429634492
           <<<<1, -56, 28311552, 0>>, <<1, -55, 26735363, 1583664>>>>,    \* 27/256: 0.19919397686347073
           <<<<1, -56, 29360128, 0>>, <<1, -55, 26732558, 134703606>>>>,    \* 28/256: 0.19917308167971698
           <<<<1, -56, 30408704, 0>>, <<1, -55, 26729652, 87559108>>>>,    \* 29/256: 0.19915142898397964
           <<<<1, -56, 31457280, 0>>, <<1, -55, 26726644, 137504161>>>>,    \* 30/256: 0.1991290190237978
           <<<<1, -56, 32505856, 0>>, <<1, -55, 26723535, 25333069>>>>,    \* 31/256: 0.19910585205534873
           <<<<1, -55, 16777216, 0>>, <<1, -55, 26720324, 29022105>>>>,    \* 32/256: 0.19908192834344332
           <<<<1, -55, 17301504, 0>>, <<1, -55, 26717011, 158422952>>>>,    \* 33/256: 0.1990572481615207
           <<<<1, -55, 17825792, 0>>, <<1, -55, 26713597, 155262524>>>>,    \* 34/256: 0.1990318117916433
           <<<<1, -55, 18350080, 0>>, <<1, -55, 26710082, 30013679>>>>,    \* 35/256: 0.19900561952449133
           <<<<1, -55, 18874368, 0>>, <<1, -55, 26706465, 61895019>>>>,    \* 36/256: 0.1989786716593572
           <<<<1, -55, 19398656, 0>>, <<1, -55, 26702746, 261999779>>>>,    \* 37/256: 0.19895096850414004
           <<<<1, -55, 19922944, 0>>, <<1, -55, 26698927, 104860151>>>>,    \* 38/256: 0.19892251037533956
           <<<<1, -55, 20447232, 0>>, <<1, -55, 26695006, 139059811>>>>,    \* 39/256: 0.19889329759805027
           <<<<1, -55, 20971520, 0>>, <<1, -55, 26690984, 108185499>>>>,    \* 40/256: 0.19886333050595514
           <<<<1, -55, 21495808, 0>>, <<1, -55, 26686861, 24568613>>>>,    \* 41/256: 0.19883260944131922
           <<<<1, -55, 22020096, 0>>, <<1, -55, 26682636, 169284981>>>>,    \* 42/256: 0.19880113475498332
           <<<<1, -55, 22544384, 0>>, <<1, -55, 26678311, 18412789>>>>,    \* 43/256: 0.1987689068063571
           <<<<1, -55, 23068672, 0>>, <<1, -55, 26673884, 122080531>>>>,    \* 44/256: 0.19873592596341236
           <<<<1, -55, 23592960, 0>>, <<1, -55, 26669356, 225418563>>>>,    \* 45/256: 0.19870219260267605
           <<<<1, -55, 24117248, 0>>, <<1, -55, 26664728, 73865213>>>>,    \* 46/256: 0.19866770710922302
           <<<<1, -55, 24641536, 0>>, <<1, -55, 26659998, 218472886>>>>,    \* 47/256: 0.19863246987666877
           <<<<1, -55, 25165824, 0>>, <<1, -55, 26655168, 136859601>>>>,    \* 48/256: 0.19859648130716193
           <<<<1, -55, 25690112, 0>>, <<1, -55, 26650237, 112256908>>>>,    \* 49/256: 0.1985597418113766
           <<<<1, -55, 26214400, 0>>, <<1, -55, 26645205, 159767782>>>>,    \* 50/256: 0.19852225180850452
           <<<<1, -55, 26738688, 0>>, <<1, -55, 26640073, 26366338>>>>,    \* 51/256: 0.19848401172624724
           <<<<1, -55, 27262976, 0>>, <<1, -55, 26634839, 264639359>>>>,    \* 52/256: 0.1984450220008078
           <<<<1, -55, 27787264, 0>>, <<1, -55, 26629506, 85302351>>>>,    \* 53/256: 0.19840528307688252
           <<<<1, -55, 28311552, 0>>, <<1, -55, 26624072, 41553798>>>>,    \* 54/256: 0.19836479540765256
           <<<<1, -55, 28835840, 0>>, <<1, -55, 26618537, 150026658>>>>,    \* 55/256: 0.19832355945477526
           <<<<1, -55, 29360128, 0>>, <<1, -55, 26612902, 159223507>>>>,    \* 56/256: 0.19828157568837543
           <<<<1, -55, 29884416, 0>>, <<1, -55, 26607167, 86387127>>>>,    \* 57/256: 0.19823884458703642
           <<<<1, -55, 30408704, 0>>, <<1, -55, 26601331, 217500175>>>>,    \* 58/256: 0.1981953666377909
           <<<<1, -55, 30932992, 0>>, <<1, -55, 26595396, 33543033>>>>,    \* 59/256: 0.19815114233611178
           <<<<1, -55, 31457280, 0>>, <<1, -55, 26589360, 89541652>>>>,    \* 60/256: 0.19810617218590265
           <<<<1, -55, 31981568, 0>>, <<1, -55, 26583224, 135519023>>>>,    \* 61/256: 0.19806045669948832
           <<<<1, -55, 32505856, 0>>, <<1, -55, 26576988, 190236649>>>>,    \* 62/256: 0.1980139963976051
           <<<<1, -55, 33030144, 0>>, <<1, -55, 26570653, 4323272>>>>,    \* 63/256: 0.1979667918093908
           <<<<1, -54, 16777216, 0>>, <<1, -55, 26564217, 134016340>>>>,    \* 64/256: 0.19791884347237476
           <<<<1, -54, 17039360, 0>>, <<1, -55, 26557682, 62113445>>>>,    \* 65/256: 0.19787015193246763
           <<<<1, -54, 17301504, 0>>, <<1, -55, 26551047, 77020145>>>>,    \* 66/256: 0.19782071774395107
           <<<<1, -54, 17563648, 0>>, <<1, -55, 26544312, 199007758>>>>,    \* 67/256: 0.1977705414694672
           <<<<1, -54, 17825792, 0>>, <<1, -55, 26537478, 180212974>>>>,    \* 68/256: 0.19771962368000778
           <<<<1, -54, 18087936, 0>>, <<1, -55, 26530545, 41508388>>>>,    \* 69/256: 0.19766796495490369
           <<<<1, -54, 18350080, 0>>, <<1, -55, 26523512, 72502093>>>>,    \* 70/256: 0.19761556588181364
           <<<<1, -54, 18612224, 0>>, <<1, -55, 26516380, 26230916>>>>,    \* 71/256: 0.19756242705671323
           <<<<1, -54, 18874368, 0>>, <<1, -55, 26509148, 192901834>>>>,    \* 72/256: 0.19750854908388354
           <<<<1, -54, 19136512, 0>>, <<1, -55, 26501818, 57714280>>>>,    \* 73/256: 0.19745393257589972
           <<<<1, -54, 19398656, 0>>, <<1, -55, 26494388, 179907921>>>>,    \* 74/256: 0.19739857815361941
           <<<<1, -54, 19660800, 0>>, <<1, -55, 26486860, 45278580>>>>,    \* 75/256: 0.19734248644617092
           <<<<1, -54, 19922944, 0>>, <<1, -55, 26479232, 213661461>>>>,    \* 76/256: 0.19728565809094137
           <<<<1, -54, 20185088, 0>>, <<1, -55, 26471506, 171447059>>>>,    \* 77/256: 0.1972280937335645
           <<<<1, -54, 20447232, 0>>, <<1, -55, 26463681, 210628920>>>>,    \* 78/256: 0.19716979402790868
           <<<<1, -54, 20709376, 0>>, <<1, -55, 26455758, 86625907>>>>,    \* 79/256: 0.19711075963606425
           <<<<1, -54, 20971520, 0>>, <<1, -55, 26447736, 92023578>>>>,    \* 80/256: 0.1970509912283312
           <<<<1, -54, 21233664, 0>>, <<1, -55, 26439615, 251267358>>>>,    \* 81/256: 0.19699048948320635
           <<<<1, -54, 21495808, 0>>, <<1, -55, 26431397, 52226623>>>>,    \* 82/256: 0.19692925508737066
           <<<<1, -54, 21757952, 0>>, <<1, -55, 26423080, 56806964>>>>,    \* 83/256: 0.19686728873567605
           <<<<1, -54, 22020096, 0>>, <<1, -55, 26414665, 21901528>>>>,    \* 84/256: 0.19680459113113247
           <<<<1, -54, 22282240, 0>>, <<1, -55, 26406151, 241567812>>>>,    \* 85/256: 0.1967411629848944
           <<<<1, -54, 22544384, 0>>, <<1, -55, 26397540, 204849902>>>>,    \* 86/256: 0.19667700501624757
           <<<<1, -54, 22806528, 0>>, <<1, -55, 26388831, 206390721>>>>,    \* 87/256: 0.19661211795259528
           <<<<1, -54, 23068672, 0>>, <<1, -55, 26380025, 4254251>>>>,    \* 88/256: 0.1965465025294447
           <<<<1, -54, 23330816, 0>>, <<1, -55, 26371120, 162102312>>>>,    \* 89/256: 0.19648015949039288
           <<<<1, -54, 23592960, 0>>, <<1, -55, 26362118, 170145867>>>>,    \* 90/256: 0.19641308958711287
           <<<<1, -54, 23855104, 0>>, <<1, -55, 26353019, 55757245>>>>,    \* 91/256: 0.1963452935793394
           <<<<1, -54, 24117248, 0>>, <<1, -55, 26343822, 115034166>>>>,    \* 92/256: 0.19627677223485457
           <<<<1, -54, 24379392, 0>>, <<1, -55, 26334528, 107492856>>>>,    \* 93/256: 0.19620752632947336
           <<<<1, -54, 24641536, 0>>, <<1, -55, 26325137, 61373882>>>>,    \* 94/256: 0.19613755664702898
           <<<<1, -54, 24903680, 0>>, <<1, -55, 26315649, 5206167>>>>,    \* 95/256: 0.1960668639793581
           <<<<1, -54, 25165824, 0>>, <<1, -55, 26306063, 236241908>>>>,    \* 96/256: 0.19599544912628597
           <<<<1, -54, 25427968, 0>>, <<1, -55, 26296381, 246714205>>>>,    \* 97/256: 0.19592331289561118
           <<<<1, -54, 25690112, 0>>, <<1, -55, 26286603, 66013796>>>>,    \* 98/256: 0.1958504561030906
           <<<<1, -54, 25952256, 0>>, <<1, -55, 26276727, 260688502>>>>,    \* 99/256: 0.1957768795724239
           <<<<1, -54, 26214400, 0>>, <<1, -55, 26266756, 55394475>>>>,    \* 100/256: 0.19570258413523808
           <<<<1, -54, 26476544, 0>>, <<1, -55, 26256688, 17250197>>>>,    \* 101/256: 0.19562757063107186
           <<<<1, -54, 26738688, 0>>, <<1, -55, 26246523, 176787711>>>>,    \* 102/256: 0.19555183990735966
           <<<<1, -54, 27000832, 0>>, <<1, -55, 26236263, 27952055>>>>,    \* 103/256: 0.19547539281941592
           <<<<1, -54, 27262976, 0>>, <<1, -55, 26225906, 138713412>>>>,    \* 104/256: 0.1953982302304188
           <<<<1, -54, 27525120, 0>>, <<1, -55, 26215454, 3582878>>>>,    \* 105/256: 0.195320353011394
           <<<<1, -54, 27787264, 0>>, <<1, -55, 26204905, 191095522>>>>,    \* 106/256: 0.19524176204119842
           <<<<1, -54, 28049408, 0>>, <<1, -55, 26194261, 196326138>>>>,    \* 107/256: 0.19516245820650352
           <<<<1, -54, 28311552, 0>>, <<1, -55, 26183522, 51501388>>>>,    \* 108/256: 0.19508244240177885
           <<<<1, -54, 28573696, 0>>, <<1, -55, 26172687, 57563730>>>>,    \* 109/256: 0.19500171552927498
           <<<<1, -54, 28835840, 0>>, <<1, -55, 26161756, 247299903>>>>,    \* 110/256: 0.1949202784990067
           <<<<1, -54, 29097984, 0>>, <<1, -55, 26150731, 116904854>>>>,    \* 111/256: 0.19483813222873597
           <<<<1, -54, 29360128, 0>>, <<1, -55, 26139610, 236593848>>>>,    \* 112/256: 0.1947552776439545
           <<<<1, -54, 29622272, 0>>, <<1, -55, 26128395, 103118200>>>>,    \* 113/256: 0.19467171567786656
           <<<<1, -54, 29884416, 0>>, <<1, -55, 26117085, 18812833>>>>,    \* 114/256: 0.19458744727137137
           <<<<1, -54, 30146560, 0>>, <<1, -55, 26105680, 17853818>>>>,    \* 115/256: 0.19450247337304544
           <<<<1, -54, 30408704, 0>>, <<1, -55, 26094180, 134693190>>>>,    \* 116/256: 0.19441679493912484
           <<<<1, -54, 30670848, 0>>, <<1, -55, 26082586, 135622842>>>>,    \* 117/256: 0.19433041293348713
           <<<<1, -54, 30932992, 0>>, <<1, -55, 26070898, 55644795>>>>,    \* 118/256: 0.19424332832763355
           <<<<1, -54, 31195136, 0>>, <<1, -55, 26059115, 198470529>>>>,    \* 119/256: 0.19415554210067046
           <<<<1, -54, 31457280, 0>>, <<1, -55, 26047239, 62778512>>>>,    \* 120/256: 0.19406705523929135
           <<<<1, -54, 31719424, 0>>, <<1, -55, 26035268, 221261713>>>>,    \* 121/256: 0.19397786873775805
           <<<<1, -54, 31981568, 0>>, <<1, -55, 26023204, 173143293>>>>,    \* 122/256: 0.1938879835978823
           <<<<1, -54, 32243712, 0>>, <<1, -55, 26011046, 223224119>>>>,    \* 123/256: 0.19379740082900707
           <<<<1, -54, 32505856, 0>>, <<1, -55, 25998795, 139704800>>>>,    \* 124/256: 0.19370612144798738
           <<<<1, -54, 32768000, 0>>, <<1, -55, 25986450, 227926827>>>>,    \* 125/256: 0.1936141464791715
           <<<<1, -54, 33030144, 0>>, <<1, -55, 25974012, 256630063>>>>,    \* 126/256: 0.1935214769543818
           <<<<1, -54, 33292288, 0>>, <<1, -55, 25961481, 263258411>>>>,    \* 127/256: 0.19342811391289536
           <<<<1, -53, 16777216, 0>>, <<1, -55, 25948858, 17088206>>>>}    \* 128/256: 0.19333405840142465
      [] sigma = <<1, -53, 22310442, 134243498>> ->    \* sigma = 0.664903
          {<<zero, <<1, -53, 20132683, 119059734>>>>,    \* sqrt(0): 0.6000007225135586
           <<<<1, -52, 16777216, 0>>, <<1, -55, 25988725, 197782023>>>>,    \* sqrt(1): 0.1936310957133431
           <<<<1, -52, 23726566, 109001677>>, <<1, -57, 33548129, 55234540>>>>,    \* sqrt(2): 0.06248826013089101
           <<<<1, -51, 16777216, 0>>, <<1, -60, 27951489, 90546200>>>>,    \* sqrt(4): 0.006507963253490366
           <<<<1, -51, 18757497, 194507944>>, <<1, -61, 18040903, 80355887>>>>,    \* sqrt(5): 0.0021002375636423247
           <<<<1, -51, 23726566, 109001677>>, <<1, -66, 19403418, 76938152>>>>,    \* sqrt(8): 7.058922451184827e-05
           <<<<1, -51, 25165824, 0>>, <<1, -68, 25047337, 123769752>>>>,    \* sqrt(9): 2.2780420714369262e-05
           <<<<1, -51, 26527107, 182082387>>, <<1, -70, 32332917, 12612345>>>>,    \* sqrt(10): 7.351654186774032e-06
           <<<<1, -51, 30245556, 73488883>>, <<1, -74, 17387408, 157575036>>>>,    \* sqrt(13): 2.47089937303894e-07
           <<<<1, -50, 17794924, 215968985>>, <<1, -83, 31161723, 122334571>>>>,    \* sqrt(18): 8.649115716888808e-10
           <<<<1, -60, 16777216, 0>>, <<1, -53, 20132336, 2754171>>>>,    \* 1/256: 0.5999903681951787
           <<<<1, -59, 16777216, 0>>, <<1, -53, 20131293, 200365060>>>>,    \* 2/256: 0.5999593063121442
           <<<<1, -59, 25165824, 0>>, <<1, -53, 20129556, 203989827>>>>,    \* 3/256: 0.5999075400805868
           <<<<1, -58, 16777216, 0>>, <<1, -53, 20127125, 61903477>>>>,    \* 4/256: 0.5998350748601086
           <<<<1, -58, 20971520, 0>>, <<1, -53, 20123999, 110114812>>>>,    \* 5/256: 0.599741918152858
           <<<<1, -58, 25165824, 0>>, <<1, -53, 20120179, 167048401>>>>,    \* 6/256: 0.5996280796022352
           <<<<1, -58, 29360128, 0>>, <<1, -53, 20115666, 70400509>>>>,    \* 7/256: 0.599493570991228
           <<<<1, -57, 16777216, 0>>, <<1, -53, 20110459, 213991699>>>>,    \* 8/256: 0.5993384062403798
           <<<<1, -57, 18874368, 0>>, <<1, -53, 20104560, 205567924>>>>,    \* 9/256: 0.5991626014053879
           <<<<1, -57, 20971520, 0>>, <<1, -53, 20097969, 208952867>>>>,    \* 10/256: 0.5989661746743348
           <<<<1, -57, 23068672, 0>>, <<1, -53, 20090687, 138713329>>>>,    \* 11/256: 0.5987491463645523
           <<<<1, -57, 25165824, 0>>, <<1, -53, 20082714, 196998588>>>>,    \* 12/256: 0.5985115389191189
           <<<<1, -57, 27262976, 0>>, <<1, -53, 20074052, 68199196>>>>,    \* 13/256: 0.5982533769029916
           <<<<1, -57, 29360128, 0>>, <<1, -53, 20064700, 261086131>>>>,    \* 14/256: 0.5979746869987735
           <<<<1, -57, 31457280, 0>>, <<1, -53, 20054661, 229721206>>>>,    \* 15/256: 0.5976754980021173
           <<<<1, -56, 16777216, 0>>, <<1, -53, 20043935, 252460598>>>>,    \* 16/256: 0.5973558408167665
           <<<<1, -56, 17825792, 0>>, <<1, -53, 20032524, 89729646>>>>,    \* 17/256: 0.5970157484492356
           <<<<1, -56, 18874368, 0>>, <<1, -53, 20020428, 57713515>>>>,    \* 18/256: 0.5966552560031294
           <<<<1, -56, 19922944, 0>>, <<1, -53, 20007648, 222996436>>>>,    \* 19/256: 0.5962744006731051
           <<<<1, -56, 20971520, 0>>, <<1, -53, 19994187, 134068637>>>>,    \* 20/256: 0.5958732217384753
           <<<<1, -56, 22020096, 0>>, <<1, -53, 19980045, 163442815>>>>,    \* 21/256: 0.5954517605564574
           <<<<1, -56, 23068672, 0>>, <<1, -53, 19965224, 165412847>>>>,    \* 22/256: 0.5950100605550669
           <<<<1, -56, 24117248, 0>>, <<1, -53, 19949726, 12857534>>>>,    \* 23/256: 0.5945481672256603
           <<<<1, -56, 25165824, 0>>, <<1, -53, 19933551, 134041175>>>>,    \* 24/256: 0.5940661281151262
           <<<<1, -56, 26214400, 0>>, <<1, -53, 19916702, 170362812>>>>,    \* 25/256: 0.5935639928177276
           <<<<1, -56, 27262976, 0>>, <<1, -53, 19899181, 50021465>>>>,    \* 26/256: 0.5930418129665994
           <<<<1, -56, 28311552, 0>>, <<1, -53, 19880988, 256371881>>>>,    \* 27/256: 0.5924996422248984
           <<<<1, -56, 29360128, 0>>, <<1, -53, 19862127, 217229014>>>>,    \* 28/256: 0.5919375362766128
           <<<<1, -56, 30408704, 0>>, <<1, -53, 19842599, 183830364>>>>,    \* 29/256: 0.5913555528170309
           <<<<1, -56, 31457280, 0>>, <<1, -53, 19822406, 157005265>>>>,    \* 30/256: 0.5907537515428719
           <<<<1, -56, 32505856, 0>>, <<1, -53, 19801550, 155518409>>>>,    \* 31/256: 0.59013219414208
           <<<<1, -55, 16777216, 0>>, <<1, -53, 19780033, 215974934>>>>,    \* 32/256: 0.5894909442832865
           <<<<1, -55, 17301504, 0>>, <<1, -53, 19757858, 124287064>>>>,    \* 33/256: 0.5888300676049409
           <<<<1, -55, 17825792, 0>>, <<1, -53, 19735026, 220879623>>>>,    \* 34/256: 0.5881496317041134
           <<<<1, -55, 18350080, 0>>, <<1, -53, 19711541, 58408967>>>>,    \* 35/256: 0.587449706124972
           <<<<1, -55, 18874368, 0>>, <<1, -53, 19687404, 12269027>>>>,    \* 36/256: 0.5867303623469379
           <<<<1, -55, 19398656, 0>>, <<1, -53, 19662617, 206739911>>>>,    \* 37/256: 0.5859916737725194
           <<<<1, -55, 19922944, 0>>, <<1, -53, 19637184, 246440016>>>>,    \* 38/256: 0.5852337157148302
           <<<<1, -55, 20447232, 0>>, <<1, -53, 19611108, 21517141>>>>,    \* 39/256: 0.5844565653847932
           <<<<1, -55, 20971520, 0>>, <<1, -53, 19584389, 244401337>>>>,    \* 40/256: 0.583660301878033
           <<<<1, -55, 21495808, 0>>, <<1, -53, 19557033, 33764975>>>>,    \* 41/256: 0.5828450061614613
           <<<<1, -55, 22020096, 0>>, <<1, -53, 19529040, 135624635>>>>,    \* 42/256: 0.5820107610595565
           <<<<1, -55, 22544384, 0>>, <<1, -53, 19500414, 238860266>>>>,    \* 43/256: 0.5811576512403438
           <<<<1, -55, 23068672, 0>>, <<1, -53, 19471159, 48828025>>>>,    \* 44/256: 0.5802857632010748
           <<<<1, -55, 23592960, 0>>, <<1, -53, 19441276, 92535017>>>>,    \* 45/256: 0.5793951852536142
           <<<<1, -55, 24117248, 0>>, <<1, -53, 19410769, 107892310>>>>,    \* 46/256: 0.5784860075095348
           <<<<1, -55, 24641536, 0>>, <<1, -53, 19379641, 117319908>>>>,    \* 47/256: 0.5775583218649243
           <<<<1, -55, 25165824, 0>>, <<1, -53, 19347895, 159171897>>>>,    \* 48/256: 0.5766122219849087
           <<<<1, -55, 25690112, 0>>, <<1, -53, 19315535, 19159055>>>>,    \* 49/256: 0.5756478032878948
           <<<<1, -55, 26214400, 0>>, <<1, -53, 19282563, 35510794>>>>,    \* 50/256: 0.5746651629295354
           <<<<1, -55, 26738688, 0>>, <<1, -53, 19248983, 25086460>>>>,    \* 51/256: 0.573664399786423
           <<<<1, -55, 27262976, 0>>, <<1, -53, 19214798, 88532391>>>>,    \* 52/256: 0.572645614439513
           <<<<1, -55, 27787264, 0>>, <<1, -53, 19180012, 73259306>>>>,    \* 53/256: 0.5716089091572816
           <<<<1, -55, 28311552, 0>>, <<1, -53, 19144628, 110159171>>>>,    \* 54/256: 0.5705543878786233
           <<<<1, -55, 28835840, 0>>, <<1, -53, 19108650, 76577916>>>>,    \* 55/256: 0.5694821561954906
           <<<<1, -55, 29360128, 0>>, <<1, -53, 19072081, 133027701>>>>,    \* 56/256: 0.5683923213352801
           <<<<1, -55, 29884416, 0>>, <<1, -53, 19034925, 186155106>>>>,    \* 57/256: 0.5672849921429697
           <<<<1, -55, 30408704, 0>>, <<1, -53, 18997186, 157013487>>>>,    \* 58/256: 0.5661602790630108
           <<<<1, -55, 30932992, 0>>, <<1, -53, 18958867, 249333169>>>>,    \* 59/256: 0.5650182941209804
           <<<<1, -55, 31457280, 0>>, <<1, -53, 18919973, 144047668>>>>,    \* 60/256: 0.5638591509049946
           <<<<1, -55, 31981568, 0>>, <<1, -53, 18880507, 72866034>>>>,    \* 61/256: 0.5626829645468929
           <<<<1, -55, 32505856, 0>>, <<1, -53, 18840473, 12794931>>>>,    \* 62/256: 0.5614898517031918
           <<<<1, -55, 33030144, 0>>, <<1, -53, 18799874, 222835998>>>>,    \* 63/256: 0.5602799305358166
           <<<<1, -54, 16777216, 0>>, <<1, -53, 18758716, 170068497>>>>,    \* 64/256: 0.5590533206926144
           <<<<1, -54, 17039360, 0>>, <<1, -53, 18717002, 140084584>>>>,    \* 65/256: 0.557810143287651
           <<<<1, -54, 17301504, 0>>, <<1, -53, 18674736, 163068138>>>>,    \* 66/256: 0.5565505208812997
           <<<<1, -54, 17563648, 0>>, <<1, -53, 18631923, 13613557>>>>,    \* 67/256: 0.5552745774601237
           <<<<1, -54, 17825792, 0>>, <<1, -53, 18588566, 15849117>>>>,    \* 68/256: 0.5539824384165574
           <<<<1, -54, 18087936, 0>>, <<1, -53, 18544669, 237945829>>>>,    \* 69/256: 0.552674230528393
           <<<<1, -54, 18350080, 0>>, <<1, -53, 18500238, 223495480>>>>,    \* 70/256: 0.5513500819380743
           <<<<1, -54, 18612224, 0>>, <<1, -53, 18455277, 65064279>>>>,    \* 71/256: 0.5500101221318044
           <<<<1, -54, 18874368, 0>>, <<1, -53, 18409789, 135567579>>>>,    \* 72/256: 0.5486544819184717
           <<<<1, -54, 19136512, 0>>, <<1, -53, 18363780, 14336638>>>>,    \* 73/256: 0.547283293408398
           <<<<1, -54, 19398656, 0>>, <<1, -53, 18317253, 97538386>>>>,    \* 74/256: 0.5458966899919153
           <<<<1, -54, 19660800, 0>>, <<1, -53, 18270213, 255803673>>>>,    \* 75/256: 0.5444948063177747
           <<<<1, -54, 19922944, 0>>, <<1, -53, 18222666, 102466781>>>>,    \* 76/256: 0.5430777782713921
           <<<<1, -54, 20185088, 0>>, <<1, -53, 18174615, 67109891>>>>,    \* 77/256: 0.5416457429529377
           <<<<1, -54, 20447232, 0>>, <<1, -53, 18126065, 53187067>>>>,    \* 78/256: 0.5401988386552711
           <<<<1, -54, 20709376, 0>>, <<1, -53, 18077020, 243130558>>>>,    \* 79/256: 0.5387372048417303
           <<<<1, -54, 20971520, 0>>, <<1, -53, 18027487, 24407623>>>>,    \* 80/256: 0.5372609821237767
           <<<<1, -54, 21233664, 0>>, <<1, -53, 17977468, 136801582>>>>,    \* 81/256: 0.5357703122385027
           <<<<1, -54, 21495808, 0>>, <<1, -53, 17926969, 256288929>>>>,    \* 82/256: 0.5342653380260068
           <<<<1, -54, 21757952, 0>>, <<1, -53, 17875996, 68576214>>>>,    \* 83/256: 0.532746203406641
           <<<<1, -54, 22020096, 0>>, <<1, -53, 17824552, 74200370>>>>,    \* 84/256: 0.5312130533581352
           <<<<1, -54, 22282240, 0>>, <<1, -53, 17772642, 246144328>>>>,    \* 85/256: 0.529666033892604
           <<<<1, -54, 22544384, 0>>, <<1, -53, 17720273, 29628904>>>>,    \* 86/256: 0.5281052920334419
           <<<<1, -54, 22806528, 0>>, <<1, -53, 17667447, 220951907>>>>,    \* 87/256: 0.5265309757921098
           <<<<1, -54, 23068672, 0>>, <<1, -53, 17614172, 14488121>>>>,    \* 88/256: 0.5249432341448205
           <<<<1, -54, 23330816, 0>>, <<1, -53, 17560450, 223703899>>>>,    \* 89/256: 0.5233422170091261
           <<<<1, -54, 23592960, 0>>, <<1, -53, 17506289, 59719983>>>>,    \* 90/256: 0.5217280752204142
           <<<<1, -54, 23855104, 0>>, <<1, -53, 17451692, 83889029>>>>,    \* 91/256: 0.5201009605083163
           <<<<1, -54, 24117248, 0>>, <<1, -53, 17396665, 60098736>>>>,    \* 92/256: 0.5184610254730355
           <<<<1, -54, 24379392, 0>>, <<1, -53, 17341213, 28299754>>>>,    \* 93/256: 0.5168084235615968
           <<<<1, -54, 24641536, 0>>, <<1, -53, 17285341, 35855668>>>>,    \* 94/256: 0.5151433090440265
           <<<<1, -54, 24903680, 0>>, <<1, -53, 17229054, 137327844>>>>,    \* 95/256: 0.5134658369894649
           <<<<1, -54, 25165824, 0>>, <<1, -53, 17172358, 125824264>>>>,    \* 96/256: 0.5117761632422182
           <<<<1, -54, 25427968, 0>>, <<1, -53, 17115258, 69654231>>>>,    \* 97/256: 0.5100744443977544
           <<<<1, -54, 25690112, 0>>, <<1, -53, 17057759, 43676240>>>>,    \* 98/256: 0.5083608377786479
           <<<<1, -54, 25952256, 0>>, <<1, -53, 16999866, 129080903>>>>,    \* 99/256: 0.5066355014104794
           <<<<1, -54, 26214400, 0>>, <<1, -53, 16941585, 144738043>>>>,    \* 100/256: 0.5048985939976939
           <<<<1, -54, 26476544, 0>>, <<1, -53, 16882921, 183849844>>>>,    \* 101/256: 0.5031502748994243
           <<<<1, -54, 26738688, 0>>, <<1, -53, 16823880, 76861901>>>>,    \* 102/256: 0.5013907041052846
           <<<<1, -54, 27000832, 0>>, <<1, -54, 33528933, 124667185>>>>,    \* 103/256: 0.49962004221113704
           <<<<1, -54, 27262976, 0>>, <<1, -54, 33409372, 231261999>>>>,    \* 104/256: 0.49783845039484026
           <<<<1, -54, 27525120, 0>>, <<1, -54, 33289089, 165852096>>>>,    \* 105/256: 0.49604609039198166
           <<<<1, -54, 27787264, 0>>, <<1, -54, 33168094, 167262049>>>>,    \* 106/256: 0.4942431244716002
           <<<<1, -54, 28049408, 0>>, <<1, -54, 33046398, 215053351>>>>,    \* 107/256: 0.4924297154119039
           <<<<1, -54, 28311552, 0>>, <<1, -54, 32924013, 29086986>>>>,    \* 108/256: 0.49060602647598783
           <<<<1, -54, 28573696, 0>>, <<1, -54, 32800948, 142827922>>>>,    \* 109/256: 0.48877222138755727
           <<<<1, -54, 28835840, 0>>, <<1, -54, 32677216, 23859763>>>>,    \* 110/256: 0.48692846430666065
           <<<<1, -54, 29097984, 0>>, <<1, -54, 32552826, 220931519>>>>,    \* 111/256: 0.485074919805438
           <<<<1, -54, 29360128, 0>>, <<1, -54, 32427791, 216037441>>>>,    \* 112/256: 0.48321175284388934
           <<<<1, -54, 29622272, 0>>, <<1, -54, 32302122, 34593685>>>>,    \* 113/256: 0.4813391287456679
           <<<<1, -54, 29884416, 0>>, <<1, -54, 32175828, 245002790>>>>,    \* 114/256: 0.4794572131739038
           <<<<1, -54, 30146560, 0>>, <<1, -54, 32048923, 79170580>>>>,    \* 115/256: 0.47756617210706165
           <<<<1, -54, 30408704, 0>>, <<1, -54, 31921416, 116426541>>>>,    \* 116/256: 0.475666171814839
           <<<<1, -54, 30670848, 0>>, <<1, -54, 31793319, 135606782>>>>,    \* 117/256: 0.47375737883410796
           <<<<1, -54, 30932992, 0>>, <<1, -54, 31664643, 188363372>>>>,    \* 118/256: 0.47183995994490746
           <<<<1, -54, 31195136, 0>>, <<1, -54, 31535400, 61861891>>>>,    \* 119/256: 0.46991408214648817
           <<<<1, -54, 31457280, 0>>, <<1, -54, 31405600, 83657342>>>>,    \* 120/256: 0.4679799126334173
           <<<<1, -54, 31719424, 0>>, <<1, -54, 31275255, 47523004>>>>,    \* 121/256: 0.46603761877174654
           <<<<1, -54, 31981568, 0>>, <<1, -54, 31144376, 18328705>>>>,    \* 122/256: 0.4640873680752478
           <<<<1, -54, 32243712, 0>>, <<1, -54, 31012974, 63178587>>>>,    \* 123/256: 0.4621293281817224
           <<<<1, -54, 32505856, 0>>, <<1, -54, 30881060, 250985713>>>>,    \* 124/256: 0.460163666829387
           <<<<1, -54, 32768000, 0>>, <<1, -54, 30748647, 115177243>>>>,    \* 125/256: 0.4581905518333415
           <<<<1, -54, 33030144, 0>>, <<1, -54, 30615744, 263884820>>>>,    \* 126/256: 0.45621015106212437
           <<<<1, -54, 33292288, 0>>, <<1, -54, 30482364, 232040196>>>>,    \* 127/256: 0.45422263241435723
           <<<<1, -53, 16777216, 0>>, <<1, -54, 30348518, 91568976>>>>}    \* 128/256: 0.45222816379548636
      [] sigma = <<1, -62, 18743237, 75093208>> ->    \* sigma = 0.001091
          {<<zero, <<1, -44, 23964327, 130745609>>>>,    \* sqrt(0): 365.66661814980085
           <<<<1, -52, 16777216, 0>>, zero>>,    \* sqrt(1): 0.0
           <<<<1, -52, 23726566, 109001677>>, zero>>,    \* sqrt(2): 0.0
           <<<<1, -51, 16777216, 0>>, zero>>,    \* sqrt(4): 0.0
           <<<<1, -51, 18757497, 194507944>>, zero>>,    \* sqrt(5): 0.0
           <<<<1, -51, 23726566, 109001677>>, zero>>,    \* sqrt(8): 0.0
           <<<<1, -51, 25165824, 0>>, zero>>,    \* sqrt(9): 0.0
           <<<<1, -51, 26527107, 182082387>>, zero>>,    \* sqrt(10): 0.0
           <<<<1, -51, 30245556, 73488883>>, zero>>,    \* sqrt(13): 0.0
           <<<<1, -50, 17794924, 215968985>>, zero>>,    \* sqrt(18): 0.0
           <<<<1, -60, 16777216, 0>>, <<1, -53, 20189216, 254116542>>>>,    \* 1/256: 0.60168555219942
           <<<<1, -59, 16777216, 0>>, <<1, -81, 24144163, 45728980>>>>,    \* 2/256: 2.680540586203342e-09
           <<<<1, -59, 25165824, 0>>, <<1, -127, 20493366, 21639780>>>>,    \* 3/256: 3.233283063475821e-23
           <<<<1, -58, 16777216, 0>>, <<1, -192, 24691808, 15938570>>>>,    \* 4/256: 1.0559262913515152e-42
           <<<<1, -58, 20971520, 0>>, <<1, -275, 21115479, 89060731>>>>,    \* 5/256: 9.336670137899e-68
           <<<<1, -58, 25165824, 0>>, <<1, -377, 25632292, 135966547>>>>,    \* 6/256: 2.235213252609682e-98
           <<<<1, -58, 29360128, 0>>, <<1, -497, 22084237, 206304227>>>>,    \* 7/256: 1.4488200513586587e-134
           <<<<1, -57, 16777216, 0>>, <<1, -636, 27009455, 179661750>>>>,    \* 8/256: 2.5426024907438643e-176
           <<<<1, -57, 18874368, 0>>, <<1, -793, 23445403, 73824166>>>>,    \* 9/256: 1.2081226436606464e-223
           <<<<1, -57, 20971520, 0>>, <<1, -969, 28889367, 184544988>>>>,    \* 10/256: 1.554218652002115e-276
           <<<<1, -57, 23068672, 0>>, zero>>,    \* 11/256: 0.0
           <<<<1, -57, 25165824, 0>>, zero>>,    \* 12/256: 0.0
           <<<<1, -57, 27262976, 0>>, zero>>,    \* 13/256: 0.0
           <<<<1, -57, 29360128, 0>>, zero>>,    \* 14/256: 0.0
           <<<<1, -57, 31457280, 0>>, zero>>,    \* 15/256: 0.0
           <<<<1, -56, 16777216, 0>>, zero>>,    \* 16/256: 0.0
           <<<<1, -56, 17825792, 0>>, zero>>,    \* 17/256: 0.0
           <<<<1, -56, 18874368, 0>>, zero>>,    \* 18/256: 0.0
           <<<<1, -56, 19922944, 0>>, zero>>,    \* 19/256: 0.0
           <<<<1, -56, 20971520, 0>>, zero>>,    \* 20/256: 0.0
           <<<<1, -56, 22020096, 0>>, zero>>,    \* 21/256: 0.0
           <<<<1, -56, 23068672, 0>>, zero>>,    \* 22/256: 0.0
           <<<<1, -56, 24117248, 0>>, zero>>,    \* 23/256: 0.0
           <<<<1, -56, 25165824, 0>>, zero>>,    \* 24/256: 0.0
           <<<<1, -56, 26214400, 0>>, zero>>,    \* 25/256: 0.0
           <<<<1, -56, 27262976, 0>>, zero>>,    \* 26/256: 0.0
           <<<<1, -56, 28311552, 0>>, zero>>,    \* 27/256: 0.0
           <<<<1, -56, 29360128, 0>>, zero>>,    \* 28/256: 0.0
           <<<<1, -56, 30408704, 0>>, zero>>,    \* 29/256: 0.0
           <<<<1, -56, 31457280, 0>>, zero>>,    \* 30/256: 0.0
           <<<<1, -56, 32505856, 0>>, zero>>,    \* 31/256: 0.0
           <<<<1, -55, 16777216, 0>>, zero>>,    \* 32/256: 0.0
           <<<<1, -55, 17301504, 0>>, zero>>,    \* 33/256: 0.0
           <<<<1, -55, 17825792, 0>>, zero>>,    \* 34/256: 0.0
           <<<<1, -55, 18350080, 0>>, zero>>,    \* 35/256: 0.0
           <<<<1, -55, 18874368, 0>>, zero>>,    \* 36/256: 0.0
           <<<<1, -55, 19398656, 0>>, zero>>,    \* 37/256: 0.0
           <<<<1, -55, 19922944, 0>>, zero>>,    \* 38/256: 0.0
           <<<<1, -55, 20447232, 0>>, zero>>,    \* 39/256: 0.0
           <<<<1, -55, 20971520, 0>>, zero>>,    \* 40/256: 0.0
           <<<<1, -55, 21495808, 0>>, zero>>,    \* 41/256: 0.0
           <<<<1, -55, 22020096, 0>>, zero>>,    \* 42/256: 0.0
           <<<<1, -55, 22544384, 0>>, zero>>,    \* 43/256: 0.0
           <<<<1, -55, 23068672, 0>>, zero>>,    \* 44/256: 0.0
           <<<<1, -55, 23592960, 0>>, zero>>,    \* 45/256: 0.0
           <<<<1, -55, 24117248, 0>>, zero>>,    \* 46/256: 0.0
           <<<<1, -55, 24641536, 0>>, zero>>,    \* 47/256: 0.0
           <<<<1, -55, 25165824, 0>>, zero>>,    \* 48/256: 0.0
           <<<<1, -55, 25690112, 0>>, zero>>,    \* 49/256: 0.0
           <<<<1, -55, 26214400, 0>>, zero>>,    \* 50/256: 0.0
           <<<<1, -55, 26738688, 0>>, zero>>,    \* 51/256: 0.0
           <<<<1, -55, 27262976, 0>>, zero>>,    \* 52/256: 0.0
           <<<<1, -55, 27787264, 0>>, zero>>,    \* 53/256: 0.0
           <<<<1, -55, 28311552, 0>>, zero>>,    \* 54/256: 0.0
           <<<<1, -55, 28835840, 0>>, zero>>,    \* 55/256: 0.0
           <<<<1, -55, 29360128, 0>>, zero>>,    \* 56/256: 0.0
           <<<<1, -55, 29884416, 0>>, zero>>,    \* 57/256: 0.0
           <<<<1, -55, 30408704, 0>>, zero>>,    \* 58/256: 0.0
           <<<<1, -55, 30932992, 0>>, zero>>,    \* 59/256: 0.0
           <<<<1, -55, 31457280, 0>>, zero>>,    \* 60/256: 0.0
           <<<<1, -55, 31981568, 0>>, zero>>,    \* 61/256: 0.0
           <<<<1, -55, 32505856, 0>>, zero>>,    \* 62/256: 0.0
           <<<<1, -55, 33030144, 0>>, zero>>,    \* 63/256: 0.0
           <<<<1, -54, 16777216, 0>>, zero>>,    \* 64/256: 0.0
           <<<<1, -54, 17039360, 0>>, zero>>,    \* 65/256: 0.0
           <<<<1, -54, 17301504, 0>>, zero>>,    \* 66/256: 0.0
           <<<<1, -54, 17563648, 0>>, zero>>,    \* 67/256: 0.0
           <<<<1, -54, 17825792, 0>>, zero>>,    \* 68/256: 0.0
           <<<<1, -54, 18087936, 0>>, zero>>,    \* 69/256: 0.0
           <<<<1, -54, 18350080, 0>>, zero>>,    \* 70/256: 0.0
           <<<<1, -54, 18612224, 0>>, zero>>,    \* 71/256: 0.0
           <<<<1, -54, 18874368, 0>>, zero>>,    \* 72/256: 0.0
           <<<<1, -54, 19136512, 0>>, zero>>,    \* 73/256: 0.0
           <<<<1, -54, 19398656, 0>>, zero>>,    \* 74/256: 0.0
           <<<<1, -54, 19660800, 0>>, zero>>,    \* 75/256: 0.0
           <<<<1, -54, 19922944, 0>>, zero>>,    \* 76/256: 0.0
           <<<<1, -54, 20185088, 0>>, zero>>,    \* 77/256: 0.0
           <<<<1, -54, 20447232, 0>>, zero>>,    \* 78/256: 0.0
           <<<<1, -54, 20709376, 0>>, zero>>,    \* 79/256: 0.0
           <<<<1, -54, 20971520, 0>>, zero>>,    \* 80/256: 0.0
           <<<<1, -54, 21233664, 0>>, zero>>,    \* 81/256: 0.0
           <<<<1, -54, 21495808, 0>>, zero>>,    \* 82/256: 0.0
           <<<<1, -54, 21757952, 0>>, zero>>,    \* 83/256: 0.0
           <<<<1, -54, 22020096, 0>>, zero>>,    \* 84/256: 0.0
           <<<<1, -54, 22282240, 0>>, zero>>,    \* 85/256: 0.0
           <<<<1, -54, 22544384, 0>>, zero>>,    \* 86/256: 0.0
           <<<<1, -54, 22806528, 0>>, zero>>,    \* 87/256: 0.0
           <<<<1, -54, 23068672, 0>>, zero>>,    \* 88/256: 0.0
           <<<<1, -54, 23330816, 0>>, zero>>,    \* 89/256: 0.0
           <<<<1, -54, 23592960, 0>>, zero>>,    \* 90/256: 0.0
           <<<<1, -54, 23855104, 0>>, zero>>,    \* 91/256: 0.0
           <<<<1, -54, 24117248, 0>>, zero>>,    \* 92/256: 0.0
           <<<<1, -54, 24379392, 0>>, zero>>,    \* 93/256: 0.0
           <<<<1, -54, 24641536, 0>>, zero>>,    \* 94/256: 0.0
           <<<<1, -54, 24903680, 0>>, zero>>,    \* 95/256: 0.0
           <<<<1, -54, 25165824, 0>>, zero>>,    \* 96/256: 0.0
           <<<<1, -54, 25427968, 0>>, zero>>,    \* 97/256: 0.0
           <<<<1, -54, 25690112, 0>>, zero>>,    \* 98/256: 0.0
           <<<<1, -54, 25952256, 0>>, zero>>,    \* 99/256: 0.0
           <<<<1, -54, 26214400, 0>>, zero>>,    \* 100/256: 0.0
           <<<<1, -54, 26476544, 0>>, zero>>,    \* 101/256: 0.0
           <<<<1, -54, 26738688, 0>>, zero>>,    \* 102/256: 0.0
           <<<<1, -54, 27000832, 0>>, zero>>,    \* 103/256: 0.0
           <<<<1, -54, 27262976, 0>>, zero>>,    \* 104/256: 0.0
           <<<<1, -54, 27525120, 0>>, zero>>,    \* 105/256: 0.0
           <<<<1, -54, 27787264, 0>>, zero>>,    \* 106/256: 0.0
           <<<<1, -54, 28049408, 0>>, zero>>,    \* 107/256: 0.0
           <<<<1, -54, 28311552, 0>>, zero>>,    \* 108/256: 0.0
           <<<<1, -54, 28573696, 0>>, zero>>,    \* 109/256: 0.0
           <<<<1, -54, 28835840, 0>>, zero>>,    \* 110/256: 0.0
           <<<<1, -54, 29097984, 0>>, zero>>,    \* 111/256: 0.0
           <<<<1, -54, 29360128, 0>>, zero>>,    \* 112/256: 0.0
           <<<<1, -54, 29622272, 0>>, zero>>,    \* 113/256: 0.0
           <<<<1, -54, 29884416, 0>>, zero>>,    \* 114/256: 0.0
           <<<<1, -54, 30146560, 0>>, zero>>,    \* 115/256: 0.0
           <<<<1, -54, 30408704, 0>>, zero>>,    \* 116/256: 0.0
           <<<<1, -54, 30670848, 0>>, zero>>,    \* 117/256: 0.0
           <<<<1, -54, 30932992, 0>>, zero>>,    \* 118/256: 0.0
           <<<<1, -54, 31195136, 0>>, zero>>,    \* 119/256: 0.0
           <<<<1, -54, 31457280, 0>>, zero>>,    \* 120/256: 0.0
           <<<<1, -54, 31719424, 0>>, zero>>,    \* 121/256: 0.0
           <<<<1, -54, 31981568, 0>>, zero>>,    \* 122/256: 0.0
           <<<<1, -54, 32243712, 0>>, zero>>,    \* 123/256: 0.0
           <<<<1, -54, 32505856, 0>>, zero>>,    \* 124/256: 0.0
           <<<<1, -54, 32768000, 0>>, zero>>,    \* 125/256: 0.0
           <<<<1, -54, 33030144, 0>>, zero>>,    \* 126/256: 0.0
           <<<<1, -54, 33292288, 0>>, zero>>,    \* 127/256: 0.0
           <<<<1, -53, 16777216, 0>>, zero>>}    \* 128/256: 0.0
      [] sigma = <<1, -54, 28360138, 219455649>> ->    \* sigma = 0.422599
          {<<zero, <<1, -53, 31676084, 125349878>>>>,    \* sqrt(0): 0.9440208812643494
           <<<<1, -52, 16777216, 0>>, <<1, -57, 30828528, 200229490>>>>,    \* sqrt(1): 0.057422609526501925
           <<<<1, -52, 23726566, 109001677>>, <<1, -61, 30003651, 10544279>>>>,    \* sqrt(2): 0.0034928846917208867
           <<<<1, -51, 16777216, 0>>, <<1, -69, 28419518, 194982944>>>>,    \* sqrt(4): 1.2923700854284138e-05
           <<<<1, -51, 18757497, 194507944>>, <<1, -73, 27659098, 215866359>>>>,    \* sqrt(5): 7.861188693188084e-07
           <<<<1, -51, 23726566, 109001677>>, <<1, -85, 25497755, 30002821>>>>,    \* sqrt(8): 1.769262175083748e-10
           <<<<1, -51, 25165824, 0>>, <<1, -89, 24815512, 188270852>>>>,    \* sqrt(9): 1.0762013112864008e-11
           <<<<1, -51, 26527107, 182082387>>, <<1, -93, 24151525, 6377353>>>>,    \* sqrt(10): 6.546283974898974e-13
           <<<<1, -51, 30245556, 73488883>>, <<1, -105, 22264270, 261057989>>>>,    \* sqrt(13): 1.4733258640874428e-16
           <<<<1, -50, 17794924, 215968985>>, <<1, -125, 19440839, 104734030>>>>,    \* sqrt(18): 1.226889452766528e-22
           <<<<1, -60, 16777216, 0>>, <<1, -53, 31674731, 77207826>>>>,    \* 1/256: 0.9439805533773173
           <<<<1, -59, 16777216, 0>>, <<1, -53, 31670672, 25883454>>>>,    \* 2/256: 0.9438595800525957
           <<<<1, -59, 25165824, 0>>, <<1, -53, 31663907, 250642333>>>>,    \* 3/256: 0.9436579922948912
           <<<<1, -58, 16777216, 0>>, <<1, -53, 31654440, 143052714>>>>,    \* 4/256: 0.9433758417639997
           <<<<1, -58, 20971520, 0>>, <<1, -53, 31642272, 85834991>>>>,    \* 5/256: 0.9430132007527429
           <<<<1, -58, 25165824, 0>>, <<1, -53, 31627406, 110406356>>>>,    \* 6/256: 0.9425701621560969
           <<<<1, -58, 29360128, 0>>, <<1, -53, 31609846, 164959048>>>>,    \* 7/256: 0.9420468394315344
           <<<<1, -57, 16777216, 0>>, <<1, -53, 31589597, 114024175>>>>,    \* 8/256: 0.9414433665505991
           <<<<1, -57, 18874368, 0>>, <<1, -53, 31566664, 6392330>>>>,    \* 9/256: 0.9407598979417469
           <<<<1, -57, 20971520, 0>>, <<1, -53, 31541052, 74520353>>>>,    \* 10/256: 0.9399966084244832
           <<<<1, -57, 23068672, 0>>, <<1, -53, 31512768, 196989172>>>>,    \* 11/256: 0.9391536931348399
           <<<<1, -57, 25165824, 0>>, <<1, -53, 31481820, 166190381>>>>,    \* 12/256: 0.9382313674422328
           <<<<1, -57, 27262976, 0>>, <<1, -53, 31448215, 224371092>>>>,    \* 13/256: 0.9372298668577508
           <<<<1, -57, 29360128, 0>>, <<1, -53, 31411962, 257424834>>>>,    \* 14/256: 0.9361494469339322
           <<<<1, -57, 31457280, 0>>, <<1, -53, 31373071, 62348121>>>>,    \* 15/256: 0.9349903831560865
           <<<<1, -56, 16777216, 0>>, <<1, -53, 31331550, 151492373>>>>,    \* 16/256: 0.9337529708252271
           <<<<1, -56, 17825792, 0>>, <<1, -53, 31287411, 140821788>>>>,    \* 17/256: 0.9324375249326837
           <<<<1, -56, 18874368, 0>>, <<1, -53, 31240665, 90886977>>>>,    \* 18/256: 0.9310443800264708
           <<<<1, -56, 19922944, 0>>, <<1, -53, 31191323, 237112303>>>>,    \* 19/256: 0.9295738900694895
           <<<<1, -56, 20971520, 0>>, <<1, -53, 31139399, 183139520>>>>,    \* 20/256: 0.9280264282896482
           <<<<1, -56, 22020096, 0>>, <<1, -53, 31084905, 241583062>>>>,    \* 21/256: 0.9264023870219897
           <<<<1, -56, 23068672, 0>>, <<1, -53, 31027856, 90359629>>>>,    \* 22/256: 0.9247021775429204
           <<<<1, -56, 24117248, 0>>, <<1, -53, 30968265, 113302067>>>>,    \* 23/256: 0.9229262298966375
           <<<<1, -56, 25165824, 0>>, <<1, -53, 30906148, 56349330>>>>,    \* 24/256: 0.9210749927138571
           <<<<1, -56, 26214400, 0>>, <<1, -53, 30841520, 99587183>>>>,    \* 25/256: 0.9191489330229511
           <<<<1, -56, 27262976, 0>>, <<1, -53, 30774398, 50173327>>>>,    \* 26/256: 0.9171485360536041
           <<<<1, -56, 28311552, 0>>, <<1, -53, 30704798, 145808922>>>>,    \* 27/256: 0.9150743050331045
           <<<<1, -56, 29360128, 0>>, <<1, -53, 30632738, 247532124>>>>,    \* 28/256: 0.9129267609753913
           <<<<1, -56, 30408704, 0>>, <<1, -53, 30558237, 106189288>>>>,    \* 29/256: 0.9107064424629785
           <<<<1, -56, 31457280, 0>>, <<1, -53, 30481312, 165714104>>>>,    \* 30/256: 0.9084139054218872
           <<<<1, -56, 32505856, 0>>, <<1, -53, 30401983, 218861271>>>>,    \* 31/256: 0.9060497228897145
           <<<<1, -55, 16777216, 0>>, <<1, -53, 30320270, 210363233>>>>,    \* 32/256: 0.903614484776977
           <<<<1, -55, 17301504, 0>>, <<1, -53, 30236193, 234721210>>>>,    \* 33/256: 0.9011087976218655
           <<<<1, -55, 17825792, 0>>, <<1, -53, 30149773, 265502732>>>>,    \* 34/256: 0.8985332843385563
           <<<<1, -55, 18350080, 0>>, <<1, -53, 30061032, 153017885>>>>,    \* 35/256: 0.8958885839592231
           <<<<1, -55, 18874368, 0>>, <<1, -53, 29969991, 158811097>>>>,    \* 36/256: 0.8931753513699007
           <<<<1, -55, 19398656, 0>>, <<1, -53, 29876673, 147921619>>>>,    \* 37/256: 0.8903942570403508
           <<<<1, -55, 19922944, 0>>, <<1, -53, 29781101, 123268693>>>>,    \* 38/256: 0.8875459867480894
           <<<<1, -55, 20447232, 0>>, <<1, -53, 29683298, 223114630>>>>,    \* 39/256: 0.8846312412967314
           <<<<1, -55, 20971520, 0>>, <<1, -53, 29583289, 181607260>>>>,    \* 40/256: 0.8816507362288166
           <<<<1, -55, 21495808, 0>>, <<1, -53, 29481098, 131451423>>>>,    \* 41/256: 0.8786052015332791
           <<<<1, -55, 22020096, 0>>, <<1, -53, 29376750, 64356469>>>>,    \* 42/256: 0.8754953813477316
           <<<<1, -55, 22544384, 0>>, <<1, -53, 29270270, 96744913>>>>,    \* 43/256: 0.8723220336557295
           <<<<1, -55, 23068672, 0>>, <<1, -53, 29161684, 198546542>>>>,    \* 44/256: 0.8690859299791904
           <<<<1, -55, 23592960, 0>>, <<1, -53, 29051019, 190385899>>>>,    \* 45/256: 0.8657878550661428
           <<<<1, -55, 24117248, 0>>, <<1, -53, 28938302, 9164749>>>>,    \* 46/256: 0.8624286065739796
           <<<<1, -55, 24641536, 0>>, <<1, -53, 28823558, 242041120>>>>,    \* 47/256: 0.8590089947483968
           <<<<1, -55, 25165824, 0>>, <<1, -53, 28706817, 244452005>>>>,    \* 48/256: 0.8555298420981968
           <<<<1, -55, 25690112, 0>>, <<1, -53, 28588107, 16196839>>>>,    \* 49/256: 0.8519919830661394
           <<<<1, -55, 26214400, 0>>, <<1, -53, 28467454, 198438841>>>>,    \* 50/256: 0.8483962636960235
           <<<<1, -55, 26738688, 0>>, <<1, -53, 28344889, 191625894>>>>,    \* 51/256: 0.8447435412961866
           <<<<1, -55, 27262976, 0>>, <<1, -53, 28220441, 31477225>>>>,    \* 52/256: 0.8410346840996087
           <<<<1, -55, 27787264, 0>>, <<1, -53, 28094138, 117457530>>>>,    \* 53/256: 0.837270570920807
           <<<<1, -55, 28311552, 0>>, <<1, -53, 27966011, 135917556>>>>,    \* 54/256: 0.8334520908097134
           <<<<1, -55, 28835840, 0>>, <<1, -53, 27836090, 130692851>>>>,    \* 55/256: 0.8295801427027228
           <<<<1, -55, 29360128, 0>>, <<1, -53, 27704405, 231501479>>>>,    \* 56/256: 0.8256556350711052
           <<<<1, -55, 29884416, 0>>, <<1, -53, 27570988, 113884264>>>>,    \* 57/256: 0.821679485566972
           <<<<1, -55, 30408704, 0>>, <<1, -53, 27435869, 69737463>>>>,    \* 58/256: 0.8176526206669895
           <<<<1, -55, 30932992, 0>>, <<1, -53, 27299079, 198778703>>>>,    \* 59/256: 0.8135759753140323
           <<<<1, -55, 31457280, 0>>, <<1, -53, 27160651, 136867015>>>>,    \* 60/256: 0.8094504925569702
           <<<<1, -55, 31981568, 0>>, <<1, -53, 27020616, 126485070>>>>,    \* 61/256: 0.8052771231887819
           <<<<1, -55, 32505856, 0>>, <<1, -53, 26879006, 208159893>>>>,    \* 62/256: 0.8010568253831872
           <<<<1, -55, 33030144, 0>>, <<1, -53, 26735854, 217178354>>>>,    \* 63/256: 0.7967905643299942
           <<<<1, -54, 16777216, 0>>, <<1, -53, 26591193, 48728269>>>>,    \* 64/256: 0.7924793118693515
           <<<<1, -54, 17039360, 0>>, <<1, -53, 26445054, 191466830>>>>,    \* 65/256: 0.7881240461250998
           <<<<1, -54, 17301504, 0>>, <<1, -53, 26297472, 113599013>>>>,    \* 66/256: 0.7837257511374146
           <<<<1, -54, 17563648, 0>>, <<1, -53, 26148479, 138612253>>>>,    \* 67/256: 0.7792854164949322
           <<<<1, -54, 17825792, 0>>, <<1, -53, 25998109, 99782706>>>>,    \* 68/256: 0.7748040369665488
           <<<<1, -54, 18087936, 0>>, <<1, -53, 25846395, 142163936>>>>,    \* 69/256: 0.7702826121330837
           <<<<1, -54, 18350080, 0>>, <<1, -53, 25693371, 182398792>>>>,    \* 70/256: 0.7657221460189954
           <<<<1, -54, 18612224, 0>>, <<1, -53, 25539071, 173839828>>>>,    \* 71/256: 0.7611236467243381
           <<<<1, -54, 18874368, 0>>, <<1, -53, 25383529, 103238113>>>>,    \* 72/256: 0.7564881260571462
           <<<<1, -54, 19136512, 0>>, <<1, -53, 25226778, 255873015>>>>,    \* 73/256: 0.7518165991664308
           <<<<1, -54, 19398656, 0>>, <<1, -53, 25068854, 138511890>>>>,    \* 74/256: 0.7471100841759741
           <<<<1, -54, 19660800, 0>>, <<1, -53, 24909790, 86733135>>>>,    \* 75/256: 0.7423696018191012
           <<<<1, -54, 19922944, 0>>, <<1, -53, 24749620, 187905141>>>>,    \* 76/256: 0.7375961750746131
           <<<<1, -54, 20185088, 0>>, <<1, -53, 24588380, 9483651>>>>,    \* 77/256: 0.7327908288040564
           <<<<1, -54, 20447232, 0>>, <<1, -53, 24426102, 206370976>>>>,    \* 78/256: 0.7279545893905102
           <<<<1, -54, 20709376, 0>>, <<1, -53, 24262823, 101758578>>>>,    \* 79/256: 0.7230884843790604
           <<<<1, -54, 20971520, 0>>, <<1, -53, 24098576, 99824644>>>>,    \* 80/256: 0.7181935421191388
           <<<<1, -54, 21233664, 0>>, <<1, -53, 23933396, 71918143>>>>,    \* 81/256: 0.7132707914088953
           <<<<1, -54, 21495808, 0>>, <<1, -53, 23767317, 158681795>>>>,    \* 82/256: 0.7083212611417696
           <<<<1, -54, 21757952, 0>>, <<1, -53, 23600374, 230019090>>>>,    \* 83/256: 0.7033459799554314
           <<<<1, -54, 22020096, 0>>, <<1, -53, 23432602, 150390463>>>>,    \* 84/256: 0.6983459758832494
           <<<<1, -54, 22282240, 0>>, <<1, -53, 23264035, 44133703>>>>,    \* 85/256: 0.6933222760084526
           <<<<1, -54, 22544384, 0>>, <<1, -53, 23094707, 23939097>>>>,    \* 86/256: 0.6882759061211373
           <<<<1, -54, 22806528, 0>>, <<1, -53, 22924652, 187787090>>>>,    \* 87/256: 0.6832078903782792
           <<<<1, -54, 23068672, 0>>, <<1, -53, 22753906, 79043442>>>>,    \* 88/256: 0.6781192509668996
           <<<<1, -54, 23330816, 0>>, <<1, -53, 22582502, 25632353>>>>,    \* 89/256: 0.673011007770537
           <<<<1, -54, 23592960, 0>>, <<1, -53, 22410474, 63321546>>>>,    \* 90/256: 0.6678841780391676
           <<<<1, -54, 23855104, 0>>, <<1, -53, 22237856, 201217005>>>>,    \* 91/256: 0.6627397760627197
           <<<<1, -54, 24117248, 0>>, <<1, -53, 22064683, 150420420>>>>,    \* 92/256: 0.6575788128483215
           <<<<1, -54, 24379392, 0>>, <<1, -53, 21890988, 126463303>>>>,    \* 93/256: 0.6524022958014165
           <<<<1, -54, 24641536, 0>>, <<1, -53, 21716805, 41164423>>>>,    \* 94/256: 0.6472112284108825
           <<<<1, -54, 24903680, 0>>, <<1, -53, 21542167, 36701732>>>>,    \* 95/256: 0.642006609938282
           <<<<1, -54, 25165824, 0>>, <<1, -53, 21367107, 214416277>>>>,    \* 96/256: 0.63678943511137
           <<<<1, -54, 25427968, 0>>, <<1, -53, 21191660, 95220111>>>>,    \* 97/256: 0.6315606938219832
           <<<<1, -54, 25690112, 0>>, <<1, -53, 21015857, 227528387>>>>,    \* 98/256: 0.6263213708284286
           <<<<1, -54, 25952256, 0>>, <<1, -53, 20839733, 37136624>>>>,    \* 99/256: 0.6210724454624863
           <<<<1, -54, 26214400, 0>>, <<1, -53, 20663318, 240543309>>>>,    \* 100/256: 0.6158148913411395
           <<<<1, -54, 26476544, 0>>, <<1, -53, 20486647, 158042376>>>>,    \* 101/256: 0.6105496760831395
           <<<<1, -54, 26738688, 0>>, <<1, -53, 20309751, 127133837>>>>,    \* 102/256: 0.6052777610305086
           <<<<1, -54, 27000832, 0>>, <<1, -53, 20132662, 157883407>>>>,    \* 103/256: 0.600000100975082
           <<<<1, -54, 27262976, 0>>, <<1, -53, 19955412, 198941136>>>>,    \* 104/256: 0.5947176438901867
           <<<<1, -54, 27525120, 0>>, <<1, -53, 19778033, 135171664>>>>,    \* 105/256: 0.589431330667546
           <<<<1, -54, 27787264, 0>>, <<1, -53, 19600556, 53767829>>>>,    \* 106/256: 0.5841420948595039
           <<<<1, -54, 28049408, 0>>, <<1, -53, 19423011, 241977471>>>>,    \* 107/256: 0.5788508624266483
           <<<<1, -54, 28311552, 0>>, <<1, -53, 19245431, 111137790>>>>,    \* 108/256: 0.5735585514909187
           <<<<1, -54, 28573696, 0>>, <<1, -53, 19067845, 73549795>>>>,    \* 109/256: 0.5682660720942717
           <<<<1, -54, 28835840, 0>>, <<1, -53, 18890283, 198178008>>>>,    \* 110/256: 0.5629743259629789
           <<<<1, -54, 29097984, 0>>, <<1, -53, 18712776, 208578798>>>>,    \* 111/256: 0.5576842062776259
           <<<<1, -54, 29360128, 0>>, <<1, -53, 18535354, 17751554>>>>,    \* 112/256: 0.5523965974488763
           <<<<1, -54, 29622272, 0>>, <<1, -53, 18358044, 263042339>>>>,    \* 113/256: 0.5471123748990617
           <<<<1, -54, 29884416, 0>>, <<1, -53, 18180878, 156745971>>>>,    \* 114/256: 0.5418324048496558
           <<<<1, -54, 30146560, 0>>, <<1, -53, 18003883, 168599774>>>>,    \* 115/256: 0.5365575441146822
           <<<<1, -54, 30408704, 0>>, <<1, -53, 17827088, 144928481>>>>,    \* 116/256: 0.5312886399001081
           <<<<1, -54, 30670848, 0>>, <<1, -53, 17650521, 112197992>>>>,    \* 117/256: 0.5260265296092657
           <<<<1, -54, 30932992, 0>>, <<1, -53, 17474210, 6881982>>>>,    \* 118/256: 0.5207720406543428
           <<<<1, -54, 31195136, 0>>, <<1, -53, 17298181, 210689872>>>>,    \* 119/256: 0.5155259902739804
           <<<<1, -54, 31457280, 0>>, <<1, -53, 17122463, 206801896>>>>,    \* 120/256: 0.5102891853570073
           <<<<1, -54, 31719424, 0>>, <<1, -53, 16947082, 188949732>>>>,    \* 121/256: 0.5050624222723425
           <<<<1, -54, 31981568, 0>>, <<1, -54, 33544129, 240832147>>>>,    \* 122/256: 0.4998464867050895
           <<<<1, -54, 32243712, 0>>, <<1, -54, 33194873, 2099413>>>>,    \* 123/256: 0.49464215349884216
           <<<<1, -54, 32505856, 0>>, <<1, -54, 32846446, 237916>>>>,    \* 124/256: 0.48945018650421956
           <<<<1, -54, 32768000, 0>>, <<1, -54, 32498899, 104700942>>>>,    \* 125/256: 0.4842713384336442
           <<<<1, -54, 33030144, 0>>, <<1, -54, 32152282, 250225832>>>>,    \* 126/256: 0.4791063507223705
           <<<<1, -54, 33292288, 0>>, <<1, -54, 31806645, 166007734>>>>,    \* 127/256: 0.473955953395769
           <<<<1, -53, 16777216, 0>>, <<1, -54, 31462035, 178727915>>>>}    \* 128/256: 0.46882086494286906
      [] sigma = <<1, -54, 25746718, 87720412>> ->    \* sigma = 0.383656
          {<<zero, <<1, -52, 17445682, 165428523>>>>,    \* sqrt(0): 1.0398437152069373
           <<<<1, -52, 16777216, 0>>, <<1, -57, 18688393, 122634114>>>>,    \* sqrt(1): 0.03480984541931688
           <<<<1, -52, 23726566, 109001677>>, <<1, -62, 20019626, 133951418>>>>,    \* sqrt(2): 0.0011652956308685195
           <<<<1, -51, 16777216, 0>>, <<1, -72, 22973331, 59936428>>>>,    \* sqrt(4): 1.3058826893530178e-06
           <<<<1, -51, 18757497, 194507944>>, <<1, -77, 24609793, 230574113>>>>,    \* sqrt(5): 4.3715775637585896e-08
           <<<<1, -51, 23726566, 109001677>>, <<1, -92, 30252410, 65506808>>>>,    \* sqrt(8): 1.6399864454751045e-12
           <<<<1, -51, 25165824, 0>>, <<1, -97, 32407384, 153421188>>>>,    \* sqrt(9): 5.490024493286753e-14
           <<<<1, -51, 26527107, 182082387>>, <<1, -101, 17357932, 66830935>>>>,    \* sqrt(10): 1.8378425638851224e-15
           <<<<1, -51, 30245556, 73488883>>, <<1, -116, 21337817, 104862829>>>>,    \* sqrt(13): 6.894620648335136e-20
           <<<<1, -50, 17794924, 215968985>>, <<1, -141, 30100243, 20514121>>>>,    \* sqrt(18): 2.8985479737106943e-27
           <<<<1, -60, 16777216, 0>>, <<1, -52, 17444778, 101517111>>>>,    \* 1/256: 1.0397898184168761
           <<<<1, -59, 16777216, 0>>, <<1, -52, 17442065, 253702128>>>>,    \* 2/256: 1.0396281448074625
           <<<<1, -59, 25165824, 0>>, <<1, -52, 17437546, 43089483>>>>,    \* 3/256: 1.039358744652321
           <<<<1, -58, 16777216, 0>>, <<1, -52, 17431220, 115338043>>>>,    \* 4/256: 1.0389817017118748
           <<<<1, -58, 20971520, 0>>, <<1, -52, 17423090, 192980527>>>>,    \* 5/256: 1.0384971331899455
           <<<<1, -58, 25165824, 0>>, <<1, -52, 17413159, 148891866>>>>,    \* 6/256: 1.0379051896730318
           <<<<1, -58, 29360128, 0>>, <<1, -52, 17401430, 5937967>>>>,    \* 7/256: 1.0372060550523192
           <<<<1, -57, 16777216, 0>>, <<1, -52, 17387905, 204982381>>>>,    \* 8/256: 1.0363999464284703
           <<<<1, -57, 18874368, 0>>, <<1, -52, 17372590, 262203022>>>>,    \* 9/256: 1.0354871139992698
           <<<<1, -57, 20971520, 0>>, <<1, -52, 17355490, 110686585>>>>,    \* 10/256: 1.0344678409302033
           <<<<1, -57, 23068672, 0>>, <<1, -52, 17336609, 99769244>>>>,    \* 11/256: 1.0333424432080625
           <<<<1, -57, 25165824, 0>>, <<1, -52, 17315953, 188995030>>>>,    \* 12/256: 1.0321112694776864
           <<<<1, -57, 27262976, 0>>, <<1, -52, 17293529, 215740601>>>>,    \* 13/256: 1.0307747008619528
           <<<<1, -57, 29360128, 0>>, <<1, -52, 17269344, 162765179>>>>,    \* 14/256: 1.0293331507651533
           <<<<1, -57, 31457280, 0>>, <<1, -52, 17243405, 157250814>>>>,    \* 15/256: 1.0277870646598894
           <<<<1, -56, 16777216, 0>>, <<1, -52, 17215720, 201333705>>>>,    \* 16/256: 1.0261369198576509
           <<<<1, -56, 17825792, 0>>, <<1, -52, 17186298, 170998192>>>>,    \* 17/256: 1.0243832252632323
           <<<<1, -56, 18874368, 0>>, <<1, -52, 17155148, 83334252>>>>,    \* 18/256: 1.022526521113174
           <<<<1, -56, 19922944, 0>>, <<1, -52, 17122279, 95288416>>>>,    \* 19/256: 1.0205673786984093
           <<<<1, -56, 20971520, 0>>, <<1, -52, 17087701, 233908998>>>>,    \* 20/256: 1.0185064000713182
           <<<<1, -56, 22020096, 0>>, <<1, -52, 17051426, 126522069>>>>,    \* 21/256: 1.0163442177374027
           <<<<1, -56, 23068672, 0>>, <<1, -52, 17013464, 73016409>>>>,    \* 22/256: 1.0140814943317962
           <<<<1, -56, 24117248, 0>>, <<1, -52, 16973826, 239013050>>>>,    \* 23/256: 1.0117189222808478
           <<<<1, -56, 25165824, 0>>, <<1, -52, 16932526, 117404116>>>>,    \* 24/256: 1.0092572234490165
           <<<<1, -56, 26214400, 0>>, <<1, -52, 16889575, 137310306>>>>,    \* 25/256: 1.0066971487713308
           <<<<1, -56, 27262976, 0>>, <<1, -52, 16844987, 51749070>>>>,    \* 26/256: 1.0040394778716748
           <<<<1, -56, 28311552, 0>>, <<1, -52, 16798775, 9594737>>>>,    \* 27/256: 1.0012850186671722
           <<<<1, -56, 29360128, 0>>, <<1, -53, 33501906, 33729130>>>>,    \* 28/256: 0.9984346069589496
           <<<<1, -56, 30408704, 0>>, <<1, -53, 33403071, 138066784>>>>,    \* 29/256: 0.9954891060095683
           <<<<1, -56, 31457280, 0>>, <<1, -53, 33301076, 29708291>>>>,    \* 30/256: 0.9924494061074259
           <<<<1, -56, 32505856, 0>>, <<1, -53, 33195950, 182419361>>>>,    \* 31/256: 0.9893164241184317
           <<<<1, -55, 16777216, 0>>, <<1, -53, 33087726, 231462932>>>>,    \* 32/256: 0.9860911030252759
           <<<<1, -55, 17301504, 0>>, <<1, -53, 32976437, 43082232>>>>,    \* 33/256: 0.9827744114546126
           <<<<1, -55, 17825792, 0>>, <<1, -53, 32862114, 247007099>>>>,    \* 34/256: 0.9793673431924924
           <<<<1, -55, 18350080, 0>>, <<1, -53, 32744794, 84502922>>>>,    \* 35/256: 0.9758709166883801
           <<<<1, -55, 18874368, 0>>, <<1, -53, 32624510, 88158111>>>>,    \* 36/256: 0.9722861745481061
           <<<<1, -55, 19398656, 0>>, <<1, -53, 32501298, 198172315>>>>,    \* 37/256: 0.9686141830161036
           <<<<1, -55, 19922944, 0>>, <<1, -53, 32375196, 26035032>>>>,    \* 38/256: 0.9648560314472929
           <<<<1, -55, 20447232, 0>>, <<1, -53, 32246239, 191856063>>>>,    \* 39/256: 0.9610128317689756
           <<<<1, -55, 20971520, 0>>, <<1, -53, 32114467, 171948438>>>>,    \* 40/256: 0.9570857179331138
           <<<<1, -55, 21495808, 0>>, <<1, -53, 31979918, 172859948>>>>,    \* 41/256: 0.9530758453593697
           <<<<1, -55, 22020096, 0>>, <<1, -53, 31842632, 52534893>>>>,    \* 42/256: 0.948984390369288
           <<<<1, -55, 22544384, 0>>, <<1, -53, 31702648, 120447742>>>>,    \* 43/256: 0.9448125496120097
           <<<<1, -55, 23068672, 0>>, <<1, -53, 31560008, 58615834>>>>,    \* 44/256: 0.940561539481908
           <<<<1, -55, 23592960, 0>>, <<1, -53, 31414752, 258462005>>>>,    \* 45/256: 0.936232595528543
           <<<<1, -55, 24117248, 0>>, <<1, -53, 31266924, 204821615>>>>,    \* 46/256: 0.9318269718593352
           <<<<1, -55, 24641536, 0>>, <<1, -53, 31116566, 81113086>>>>,    \* 47/256: 0.9273459405353603
           <<<<1, -55, 25165824, 0>>, <<1, -53, 30963720, 226966511>>>>,    \* 48/256: 0.9227907909606737
           <<<<1, -55, 25690112, 0>>, <<1, -53, 30808432, 58926744>>>>,    \* 49/256: 0.9181628292655715
           <<<<1, -55, 26214400, 0>>, <<1, -53, 30650744, 212331069>>>>,    \* 50/256: 0.9134633776842019
           <<<<1, -55, 26738688, 0>>, <<1, -53, 30490703, 119736957>>>>,    \* 51/256: 0.9086937739269413
           <<<<1, -55, 27262976, 0>>, <<1, -53, 30328353, 152709145>>>>,    \* 52/256: 0.9038553705479472
           <<<<1, -55, 27787264, 0>>, <<1, -53, 30163741, 5470666>>>>,    \* 53/256: 0.8989495343083089
           <<<<1, -55, 28311552, 0>>, <<1, -53, 29996912, 31308004>>>>,    \* 54/256: 0.8939776455352129
           <<<<1, -55, 28835840, 0>>, <<1, -53, 29827913, 163025002>>>>,    \* 55/256: 0.8889410974775391
           <<<<1, -55, 29360128, 0>>, <<1, -53, 29656792, 175545705>>>>,    \* 56/256: 0.8838412956583116
           <<<<1, -55, 29884416, 0>>, <<1, -53, 29483596, 216928074>>>>,    \* 57/256: 0.8786796572244182
           <<<<1, -55, 30408704, 0>>, <<1, -53, 29308373, 265615070>>>>,    \* 58/256: 0.8734576102940215
           <<<<1, -55, 30932992, 0>>, <<1, -53, 29131172, 124539597>>>>,    \* 59/256: 0.8681765933020756
           <<<<1, -55, 31457280, 0>>, <<1, -53, 28952040, 220522533>>>>,    \* 60/256: 0.8628380543443696
           <<<<1, -55, 31981568, 0>>, <<1, -53, 28771027, 256177562>>>>,    \* 61/256: 0.8574434505205091
           <<<<1, -55, 32505856, 0>>, <<1, -53, 28588183, 9293826>>>>,    \* 62/256: 0.8519942472762525
           <<<<1, -55, 33030144, 0>>, <<1, -53, 28403555, 132216480>>>>,    \* 63/256: 0.8464919177456132
           <<<<1, -54, 16777216, 0>>, <<1, -53, 28217194, 266874247>>>>,    \* 64/256: 0.8409379420931352
           <<<<1, -54, 17039360, 0>>, <<1, -53, 28029151, 112602239>>>>,    \* 65/256: 0.8353338068567523
           <<<<1, -54, 17301504, 0>>, <<1, -53, 27839474, 225538189>>>>,    \* 66/256: 0.8296810042916306
           <<<<1, -54, 17563648, 0>>, <<1, -53, 27648215, 133676602>>>>,    \* 67/256: 0.8239810317153975
           <<<<1, -54, 17825792, 0>>, <<1, -53, 27455423, 210035347>>>>,    \* 68/256: 0.8182353908551526
           <<<<1, -54, 18087936, 0>>, <<1, -53, 27261150, 56180900>>>>,    \* 69/256: 0.8124455871966529
           <<<<1, -54, 18350080, 0>>, <<1, -53, 27065445, 107002158>>>>,    \* 70/256: 0.8066131293360621
           <<<<1, -54, 18612224, 0>>, <<1, -53, 26868360, 14285307>>>>,    \* 71/256: 0.8007395283346449
           <<<<1, -54, 18874368, 0>>, <<1, -53, 26669944, 251544147>>>>,    \* 72/256: 0.7948262970767906
           <<<<1, -54, 19136512, 0>>, <<1, -53, 26470250, 229222791>>>>,    \* 73/256: 0.7888749496317339
           <<<<1, -54, 19398656, 0>>, <<1, -53, 26269328, 168031414>>>>,    \* 74/256: 0.7828870006193458
           <<<<1, -54, 19660800, 0>>, <<1, -53, 26067229, 19531885>>>>,    \* 75/256: 0.7768639645803553
           <<<<1, -54, 19922944, 0>>, <<1, -53, 25864002, 265814737>>>>,    \* 76/256: 0.7708073553513605
           <<<<1, -54, 20185088, 0>>, <<1, -53, 25659701, 34867865>>>>,    \* 77/256: 0.7647186854449785
           <<<<1, -54, 20447232, 0>>, <<1, -53, 25454374, 47832820>>>>,    \* 78/256: 0.7585994654354793
           <<<<1, -54, 20709376, 0>>, <<1, -53, 25248072, 197604431>>>>,    \* 79/256: 0.7524512033502421
           <<<<1, -54, 20971520, 0>>, <<1, -53, 25040847, 80275856>>>>,    \* 80/256: 0.7462754040673634
           <<<<1, -54, 21233664, 0>>, <<1, -53, 24832748, 63512887>>>>,    \* 81/256: 0.740073568719743
           <<<<1, -54, 21495808, 0>>, <<1, -53, 24623825, 207505784>>>>,    \* 82/256: 0.7338471941059614
           <<<<1, -54, 21757952, 0>>, <<1, -53, 24414129, 259726925>>>>,    \* 83/256: 0.7275977721082626
           <<<<1, -54, 22020096, 0>>, <<1, -53, 24203710, 186626035>>>>,    \* 84/256: 0.721326789117937
           <<<<1, -54, 22282240, 0>>, <<1, -53, 23992617, 168523855>>>>,    \* 85/256: 0.7150357254684055
           <<<<1, -54, 22544384, 0>>, <<1, -53, 23780900, 57706790>>>>,    \* 86/256: 0.7087260548762842
           <<<<1, -54, 22806528, 0>>, <<1, -53, 23568607, 178773243>>>>,    \* 87/256: 0.7023992438907095
           <<<<1, -54, 23068672, 0>>, <<1, -53, 23355788, 250008584>>>>,    \* 88/256: 0.6960567513511942
           <<<<1, -54, 23330816, 0>>, <<1, -53, 23142492, 183887480>>>>,    \* 89/256: 0.6897000278542711
           <<<<1, -54, 23592960, 0>>, <<1, -53, 22928767, 82351294>>>>,    \* 90/256: 0.6833305152291798
           <<<<1, -54, 23855104, 0>>, <<1, -53, 22714660, 232169109>>>>,    \* 91/256: 0.6769496460228362
           <<<<1, -54, 24117248, 0>>, <<1, -53, 22500221, 26642668>>>>,    \* 92/256: 0.6705588429943226
           <<<<1, -54, 24379392, 0>>, <<1, -53, 22285495, 108624542>>>>,    \* 93/256: 0.6641595186191187
           <<<<1, -54, 24641536, 0>>, <<1, -53, 22070530, 218658713>>>>,    \* 94/256: 0.6577530746032948
           <<<<1, -54, 24903680, 0>>, <<1, -53, 21855373, 264438195>>>>,    \* 95/256: 0.6513409014078689
           <<<<1, -54, 25165824, 0>>, <<1, -53, 21640071, 48178717>>>>,    \* 96/256: 0.6449243777835282
           <<<<1, -54, 25427968, 0>>, <<1, -53, 21424668, 67829280>>>>,    \* 97/256: 0.6385048703159022
           <<<<1, -54, 25690112, 0>>, <<1, -53, 21209210, 170895701>>>>,    \* 98/256: 0.6320837329815655
           <<<<1, -54, 25952256, 0>>, <<1, -53, 20993743, 87410532>>>>,    \* 99/256: 0.6256623067149403
           <<<<1, -54, 26214400, 0>>, <<1, -53, 20778310, 231438030>>>>,    \* 100/256: 0.6192419189862564
           <<<<1, -54, 26476544, 0>>, <<1, -53, 20562957, 86760996>>>>,    \* 101/256: 0.6128238833907216
           <<<<1, -54, 26738688, 0>>, <<1, -53, 20347726, 82330750>>>>,    \* 102/256: 0.6064094992490394
           <<<<1, -54, 27000832, 0>>, <<1, -53, 20132660, 246595041>>>>,    \* 103/256: 0.6000000512194071
           <<<<1, -54, 27262976, 0>>, <<1, -53, 19917803, 204107732>>>>,    \* 104/256: 0.5935968089211152
           <<<<1, -54, 27525120, 0>>, <<1, -53, 19703196, 245985790>>>>,    \* 105/256: 0.5872010265698575
           <<<<1, -54, 27787264, 0>>, <<1, -53, 19488881, 252989051>>>>,    \* 106/256: 0.5808139426248567
           <<<<1, -54, 28049408, 0>>, <<1, -53, 19274899, 229319961>>>>,    \* 107/256: 0.5744367794478961
           <<<<1, -54, 28311552, 0>>, <<1, -53, 19061291, 31224928>>>>,    \* 108/256: 0.5680707429743386
           <<<<1, -54, 28573696, 0>>, <<1, -53, 18848095, 169446155>>>>,    \* 109/256: 0.5617170223962104
           <<<<1, -54, 28835840, 0>>, <<1, -53, 18635352, 195863568>>>>,    \* 110/256: 0.5553767898574069
           <<<<1, -54, 29097984, 0>>, <<1, -53, 18423101, 43036491>>>>,    \* 111/256: 0.5490512001610822
           <<<<1, -54, 29360128, 0>>, <<1, -53, 18211379, 21678118>>>>,    \* 112/256: 0.5427413904892588
           <<<<1, -54, 29622272, 0>>, <<1, -53, 18000224, 12934072>>>>,    \* 113/256: 0.5364484801347009
           <<<<1, -54, 29884416, 0>>, <<1, -53, 17789673, 2948888>>>>,    \* 114/256: 0.5301735702450712
           <<<<1, -54, 30146560, 0>>, <<1, -53, 17579762, 80672411>>>>,    \* 115/256: 0.5239177435793921
           <<<<1, -54, 30408704, 0>>, <<1, -53, 17370527, 167341616>>>>,    \* 116/256: 0.5176820642768174
           <<<<1, -54, 30670848, 0>>, <<1, -53, 17162004, 14508772>>>>,    \* 117/256: 0.5114675776377138
           <<<<1, -54, 30932992, 0>>, <<1, -53, 16954226, 7486755>>>>,    \* 118/256: 0.5052753099170427
           <<<<1, -54, 31195136, 0>>, <<1, -54, 33494454, 179713588>>>>,    \* 119/256: 0.49910626813002357
           <<<<1, -54, 31457280, 0>>, <<1, -54, 33082082, 60527745>>>>,    \* 120/256: 0.49296143987005087
           <<<<1, -54, 31719424, 0>>, <<1, -54, 32671399, 183950734>>>>,    \* 121/256: 0.48684179313883014
           <<<<1, -54, 31981568, 0>>, <<1, -54, 32262470, 183873197>>>>,    \* 122/256: 0.48074827618868704
           <<<<1, -54, 32243712, 0>>, <<1, -54, 31855357, 141096626>>>>,    \* 123/256: 0.47468181737699944
           <<<<1, -54, 32505856, 0>>, <<1, -54, 31450121, 44057395>>>>,    \* 124/256: 0.46864332503268996
           <<<<1, -54, 32768000, 0>>, <<1, -54, 31046821, 55073194>>>>,    \* 125/256: 0.4626336873347109
           <<<<1, -54, 33030144, 0>>, <<1, -54, 30645515, 239933252>>>>,    \* 126/256: 0.4566537722024473
           <<<<1, -54, 33292288, 0>>, <<1, -54, 30246262, 29266224>>>>,    \* 127/256: 0.4507044271979508
           <<<<1, -53, 16777216, 0>>, <<1, -54, 29849115, 96038727>>>>}    \* 128/256: 0.4447864794399163
      [] sigma = <<-1, -53, 16777216, 0>> ->    \* sigma = -0.5
          {<<zero, <<-1, -53, 26772563, 64239185>>>>,    \* sqrt(0): -0.7978845608028654
           <<<<1, -52, 16777216, 0>>, <<-1, -56, 28986179, 115882710>>>>,    \* sqrt(1): -0.10798193302637613
           <<<<1, -52, 23726566, 109001677>>, <<-1, -59, 31382822, 114538083>>>>,    \* sqrt(2): -0.014613765490561542
           <<<<1, -51, 16777216, 0>>, <<-1, -64, 18393486, 46183605>>>>,    \* sqrt(4): -0.00026766045152977074
           <<<<1, -51, 18757497, 194507944>>, <<-1, -67, 19914301, 76885800>>>>,    \* sqrt(5): -3.62239030190211e-05
           <<<<1, -51, 23726566, 109001677>>, <<-1, -76, 25273660, 65009714>>>>,    \* sqrt(8): -8.979007845574947e-08
           <<<<1, -51, 25165824, 0>>, <<-1, -79, 27363343, 198215677>>>>,    \* sqrt(9): -1.2151765699646572e-08
           <<<<1, -51, 26527107, 182082387>>, <<-1, -82, 29625807, 297692>>>>,    \* sqrt(10): -1.644562652786618e-09
           <<<<1, -51, 30245556, 73488883>>, <<-1, -90, 18799368, 160769001>>>>,    \* sqrt(13): -4.076463255259059e-12
           <<<<1, -50, 17794924, 215968985>>, <<-1, -105, 27967160, 208777552>>>>,    \* sqrt(18): -1.850711454681123e-16
           <<<<1, -60, 16777216, 0>>, <<-1, -53, 26771746, 58515217>>>>,    \* 1/256: -0.7978602116699866
           <<<<1, -59, 16777216, 0>>, <<-1, -53, 26769295, 81500115>>>>,    \* 2/256: -0.7977871687296506
           <<<<1, -59, 25165824, 0>>, <<-1, -53, 26765210, 253652032>>>>,    \* 3/256: -0.7976654453553991
           <<<<1, -58, 16777216, 0>>, <<-1, -53, 26759493, 238822803>>>>,    \* 4/256: -0.7974950638319335
           <<<<1, -58, 20971520, 0>>, <<-1, -53, 26752145, 49503064>>>>,    \* 5/256: -0.7972760553483154
           <<<<1, -58, 25165824, 0>>, <<-1, -53, 26743166, 46736554>>>>,    \* 6/256: -0.7970084599884519
           <<<<1, -58, 29360128, 0>>, <<-1, -53, 26732558, 134703606>>>>,    \* 7/256: -0.7966923267188679
           <<<<1, -57, 16777216, 0>>, <<-1, -53, 26720324, 29022105>>>>,    \* 8/256: -0.7963277133737733
           <<<<1, -57, 18874368, 0>>, <<-1, -53, 26706465, 61895019>>>>,    \* 9/256: -0.7959146866374288
           <<<<1, -57, 20971520, 0>>, <<-1, -53, 26690984, 108185499>>>>,    \* 10/256: -0.7954533220238206
           <<<<1, -57, 23068672, 0>>, <<-1, -53, 26673884, 122080531>>>>,    \* 11/256: -0.7949437038536494
           <<<<1, -57, 25165824, 0>>, <<-1, -53, 26655168, 136859601>>>>,    \* 12/256: -0.7943859252286477
           <<<<1, -57, 27262976, 0>>, <<-1, -53, 26634839, 264639359>>>>,    \* 13/256: -0.7937800880032312
           <<<<1, -57, 29360128, 0>>, <<-1, -53, 26612902, 159223507>>>>,    \* 14/256: -0.7931263027535017
           <<<<1, -57, 31457280, 0>>, <<-1, -53, 26589360, 89541652>>>>,    \* 15/256: -0.7924246887436106
           <<<<1, -56, 16777216, 0>>, <<-1, -53, 26564217, 134016340>>>>,    \* 16/256: -0.791675373889499
           <<<<1, -56, 17825792, 0>>, <<-1, -53, 26537478, 180212974>>>>,    \* 17/256: -0.7908784947200311
           <<<<1, -56, 18874368, 0>>, <<-1, -53, 26509148, 192901834>>>>,    \* 18/256: -0.7900341963355342
           <<<<1, -56, 19922944, 0>>, <<-1, -53, 26479232, 213661461>>>>,    \* 19/256: -0.7891426323637655
           <<<<1, -56, 20971520, 0>>, <<-1, -53, 26447736, 92023578>>>>,    \* 20/256: -0.7882039649133248
           <<<<1, -56, 22020096, 0>>, <<-1, -53, 26414665, 21901528>>>>,    \* 21/256: -0.7872183645245299
           <<<<1, -56, 23068672, 0>>, <<-1, -53, 26380025, 4254251>>>>,    \* 22/256: -0.7861860101177788
           <<<<1, -56, 24117248, 0>>, <<-1, -53, 26343822, 115034166>>>>,    \* 23/256: -0.7851070889394183
           <<<<1, -56, 25165824, 0>>, <<-1, -53, 26306063, 236241908>>>>,    \* 24/256: -0.7839817965051439
           <<<<1, -56, 26214400, 0>>, <<-1, -53, 26266756, 55394475>>>>,    \* 25/256: -0.7828103365409523
           <<<<1, -56, 27262976, 0>>, <<-1, -53, 26225906, 138713412>>>>,    \* 26/256: -0.7815929209216752
           <<<<1, -56, 28311552, 0>>, <<-1, -53, 26183522, 51501388>>>>,    \* 27/256: -0.7803297696071154
           <<<<1, -56, 29360128, 0>>, <<-1, -53, 26139610, 236593848>>>>,    \* 28/256: -0.779021110575818
           <<<<1, -56, 30408704, 0>>, <<-1, -53, 26094180, 134693190>>>>,    \* 29/256: -0.7776671797564993
           <<<<1, -56, 31457280, 0>>, <<-1, -53, 26047239, 62778512>>>>,    \* 30/256: -0.7762682209571654
           <<<<1, -56, 32505856, 0>>, <<-1, -53, 25998795, 139704800>>>>,    \* 31/256: -0.7748244857919495
           <<<<1, -55, 16777216, 0>>, <<-1, -53, 25948858, 17088206>>>>,    \* 32/256: -0.7733362336056986
           <<<<1, -55, 17301504, 0>>, <<-1, -53, 25897435, 220784075>>>>,    \* 33/256: -0.7718037313963405
           <<<<1, -55, 17825792, 0>>, <<-1, -53, 25844538, 2684357>>>>,    \* 34/256: -0.7702272537350657
           <<<<1, -55, 18350080, 0>>, <<-1, -53, 25790174, 24333828>>>>,    \* 35/256: -0.7686070826843552
           <<<<1, -55, 18874368, 0>>, <<-1, -53, 25734353, 208689016>>>>,    \* 36/256: -0.7669435077138891
           <<<<1, -55, 19398656, 0>>, <<-1, -53, 25677087, 7777473>>>>,    \* 37/256: -0.7652368256143732
           <<<<1, -55, 19922944, 0>>, <<-1, -53, 25618384, 12515873>>>>,    \* 38/256: -0.7634873404093164
           <<<<1, -55, 20447232, 0>>, <<-1, -53, 25558255, 72849067>>>>,    \* 39/256: -0.7616953632647968
           <<<<1, -55, 20971520, 0>>, <<-1, -53, 25496711, 102225931>>>>,    \* 40/256: -0.7598612123972556
           <<<<1, -55, 21495808, 0>>, <<-1, -53, 25433763, 76751403>>>>,    \* 41/256: -0.7579852129793542
           <<<<1, -55, 22020096, 0>>, <<-1, -53, 25369422, 34321443>>>>,    \* 42/256: -0.7560676970439356
           <<<<1, -55, 22544384, 0>>, <<-1, -53, 25303699, 73741272>>>>,    \* 43/256: -0.7541090033861293
           <<<<1, -55, 23068672, 0>>, <<-1, -53, 25236606, 85391787>>>>,    \* 44/256: -0.7521094774636387
           <<<<1, -55, 23592960, 0>>, <<-1, -53, 25168155, 18750911>>>>,    \* 45/256: -0.750069471295255
           <<<<1, -55, 24117248, 0>>, <<-1, -53, 25098357, 149899311>>>>,    \* 46/256: -0.747989343357636
           <<<<1, -55, 24641536, 0>>, <<-1, -53, 25027226, 6833620>>>>,    \* 47/256: -0.7458694584803944
           <<<<1, -55, 25165824, 0>>, <<-1, -53, 24954772, 247554817>>>>,    \* 48/256: -0.7437101877395379
           <<<<1, -55, 25690112, 0>>, <<-1, -53, 24881010, 243174865>>>>,    \* 49/256: -0.7415119083493044
           <<<<1, -55, 26214400, 0>>, <<-1, -53, 24805952, 224412036>>>>,    \* 50/256: -0.7392750035524362
           <<<<1, -55, 26738688, 0>>, <<-1, -53, 24729611, 206847118>>>>,    \* 51/256: -0.7369998625089396
           <<<<1, -55, 27262976, 0>>, <<-1, -53, 24652000, 258343649>>>>,    \* 52/256: -0.7346868801833716
           <<<<1, -55, 27787264, 0>>, <<-1, -53, 24573133, 229584402>>>>,    \* 53/256: -0.7323364572307034
           <<<<1, -55, 28311552, 0>>, <<-1, -53, 24493024, 21466360>>>>,    \* 54/256: -0.7299489998808033
           <<<<1, -55, 28835840, 0>>, <<-1, -53, 24411685, 120919154>>>>,    \* 55/256: -0.7275249198215887
           <<<<1, -55, 29360128, 0>>, <<-1, -53, 24329131, 257663712>>>>,    \* 56/256: -0.7250646340808906
           <<<<1, -55, 29884416, 0>>, <<-1, -53, 24245377, 208443423>>>>,    \* 57/256: -0.7225685649070818
           <<<<1, -55, 30408704, 0>>, <<-1, -53, 24160437, 64373656>>>>,    \* 58/256: -0.7200371396485137
           <<<<1, -55, 30932992, 0>>, <<-1, -53, 24074324, 229845539>>>>,    \* 59/256: -0.7174707906318115
           <<<<1, -55, 31457280, 0>>, <<-1, -53, 23987055, 79242599>>>>,    \* 60/256: -0.7148699550390746
           <<<<1, -55, 31981568, 0>>, <<-1, -53, 23898643, 103308925>>>>,    \* 61/256: -0.7122350747840326
           <<<<1, -55, 32505856, 0>>, <<-1, -53, 23809104, 28976509>>>>,    \* 62/256: -0.7095665963872048
           <<<<1, -55, 33030144, 0>>, <<-1, -53, 23718452, 160409544>>>>,    \* 63/256: -0.7068649708501136
           <<<<1, -54, 16777216, 0>>, <<-1, -53, 23626704, 35686061>>>>,    \* 64/256: -0.704130653528599
           <<<<1, -54, 17039360, 0>>, <<-1, -53, 23533874, 36261959>>>>,    \* 65/256: -0.7013641040052868
           <<<<1, -54, 17301504, 0>>, <<-1, -53, 23439978, 43637828>>>>,    \* 66/256: -0.6985657859612577
           <<<<1, -54, 17563648, 0>>, <<-1, -53, 23345031, 243502684>>>>,    \* 67/256: -0.6957361670469697
           <<<<1, -54, 17825792, 0>>, <<-1, -53, 23249051, 50823220>>>>,    \* 68/256: -0.692875718752481
           <<<<1, -54, 18087936, 0>>, <<-1, -53, 23152051, 256152707>>>>,    \* 69/256: -0.689984916277027
           <<<<1, -54, 18350080, 0>>, <<-1, -53, 23054050, 71660845>>>>,    \* 70/256: -0.6870642383979991
           <<<<1, -54, 18612224, 0>>, <<-1, -53, 22955062, 82738715>>>>,    \* 71/256: -0.6841141673393766
           <<<<1, -54, 18874368, 0>>, <<-1, -53, 22855104, 99325599>>>>,    \* 72/256: -0.6811351886396614
           <<<<1, -54, 19136512, 0>>, <<-1, -53, 22754192, 228457257>>>>,    \* 73/256: -0.6781277910193683
           <<<<1, -54, 19398656, 0>>, <<-1, -53, 22652344, 67762431>>>>,    \* 74/256: -0.6750924662481167
           <<<<1, -54, 19660800, 0>>, <<-1, -53, 22549575, 46439897>>>>,    \* 75/256: -0.6720297090113788
           <<<<1, -54, 19922944, 0>>, <<-1, -53, 22445902, 81878292>>>>,    \* 76/256: -0.6689400167769315
           <<<<1, -54, 20185088, 0>>, <<-1, -53, 22341342, 115321923>>>>,    \* 77/256: -0.665823889661063
           <<<<1, -54, 20447232, 0>>, <<-1, -53, 22235912, 110663902>>>>,    \* 78/256: -0.662681830294584
           <<<<1, -54, 20709376, 0>>, <<-1, -53, 22129629, 53237974>>>>,    \* 79/256: -0.6595143436886939
           <<<<1, -54, 20971520, 0>>, <<-1, -53, 22022509, 217044937>>>>,    \* 80/256: -0.6563219371007502
           <<<<1, -54, 21233664, 0>>, <<-1, -53, 21914571, 89801367>>>>,    \* 81/256: -0.653105119899993
           <<<<1, -54, 21495808, 0>>, <<-1, -53, 21805830, 250778383>>>>,    \* 82/256: -0.6498644034332716
           <<<<1, -54, 21757952, 0>>, <<-1, -53, 21696305, 222109040>>>>,    \* 83/256: -0.6466003008908228
           <<<<1, -54, 22020096, 0>>, <<-1, -53, 21586013, 78193015>>>>,    \* 84/256: -0.6433133271721506
           <<<<1, -54, 22282240, 0>>, <<-1, -53, 21474970, 176054446>>>>,    \* 85/256: -0.6400039987520552
           <<<<1, -54, 22544384, 0>>, <<-1, -53, 21363195, 80395183>>>>,    \* 86/256: -0.6366728335468589
           <<<<1, -54, 22806528, 0>>, <<-1, -53, 21250704, 173004804>>>>,    \* 87/256: -0.633320350780878
           <<<<1, -54, 23068672, 0>>, <<-1, -53, 21137516, 40947798>>>>,    \* 88/256: -0.6299470708531867
           <<<<1, -54, 23330816, 0>>, <<-1, -53, 21023647, 85979288>>>>,    \* 89/256: -0.6265535152047219
           <<<<1, -54, 23592960, 0>>, <<-1, -53, 20909115, 181174210>>>>,    \* 90/256: -0.6231402061857738
           <<<<1, -54, 23855104, 0>>, <<-1, -53, 20793938, 206608598>>>>,    \* 91/256: -0.6197076669239105
           <<<<1, -54, 24117248, 0>>, <<-1, -53, 20678134, 48174254>>>>,    \* 92/256: -0.6162564211923802
           <<<<1, -54, 24379392, 0>>, <<-1, -53, 20561719, 133269072>>>>,    \* 93/256: -0.6127869932790393
           <<<<1, -54, 24641536, 0>>, <<-1, -53, 20444712, 87444285>>>>,    \* 94/256: -0.6092999078558489
           <<<<1, -54, 24903680, 0>>, <<-1, -53, 20327130, 75411806>>>>,    \* 95/256: -0.6057956898489854
           <<<<1, -54, 25165824, 0>>, <<-1, -53, 20208990, 263009301>>>>,    \* 96/256: -0.6022748643096089
           <<<<1, -54, 25427968, 0>>, <<-1, -53, 20090312, 10736124>>>>,    \* 97/256: -0.598737956285333
           <<<<1, -54, 25690112, 0>>, <<-1, -53, 19971111, 20085969>>>>,    \* 98/256: -0.5951854906924386
           <<<<1, -54, 25952256, 0>>, <<-1, -53, 19851405, 184919311>>>>,    \* 99/256: -0.5916179921888743
           <<<<1, -54, 26214400, 0>>, <<-1, -53, 19731213, 127197868>>>>,    \* 100/256: -0.588035985048085
           <<<<1, -54, 26476544, 0>>, <<-1, -53, 19610552, 1162348>>>>,    \* 101/256: -0.5844399930337096
           <<<<1, -54, 26738688, 0>>, <<-1, -53, 19489438, 223776570>>>>,    \* 102/256: -0.5808305392751898
           <<<<1, -54, 27000832, 0>>, <<-1, -53, 19367891, 131438314>>>>,    \* 103/256: -0.5772081461443268
           <<<<1, -54, 27262976, 0>>, <<-1, -53, 19245927, 126360010>>>>,    \* 104/256: -0.5735733351328289
           <<<<1, -54, 27525120, 0>>, <<-1, -53, 19123564, 64862302>>>>,    \* 105/256: -0.5699266267308862
           <<<<1, -54, 27787264, 0>>, <<-1, -53, 19000819, 61596305>>>>,    \* 106/256: -0.5662685403068101
           <<<<1, -54, 28049408, 0>>, <<-1, -53, 18877709, 220033981>>>>,    \* 107/256: -0.5625995939877765
           <<<<1, -54, 28311552, 0>>, <<-1, -53, 18754253, 94533320>>>>,    \* 108/256: -0.5589203045417088
           <<<<1, -54, 28573696, 0>>, <<-1, -53, 18630467, 31462291>>>>,    \* 109/256: -0.5552311872603347
           <<<<1, -54, 28835840, 0>>, <<-1, -53, 18506368, 94414599>>>>,    \* 110/256: -0.5515327558434543
           <<<<1, -54, 29097984, 0>>, <<-1, -53, 18381974, 63178466>>>>,    \* 111/256: -0.5478255222844519
           <<<<1, -54, 29360128, 0>>, <<-1, -53, 18257301, 238023302>>>>,    \* 112/256: -0.544109996757087
           <<<<1, -54, 29622272, 0>>, <<-1, -53, 18132368, 96514531>>>>,    \* 113/256: -0.5403866875035955
           <<<<1, -54, 29884416, 0>>, <<-1, -53, 18007190, 171565984>>>>,    \* 114/256: -0.5366561007241337
           <<<<1, -54, 30146560, 0>>, <<-1, -53, 17881785, 171408286>>>>,    \* 115/256: -0.5329187404675968
           <<<<1, -54, 30408704, 0>>, <<-1, -53, 17756170, 52359915>>>>,    \* 116/256: -0.5291751085238422
           <<<<1, -54, 30670848, 0>>, <<-1, -53, 17630361, 17869351>>>>,    \* 117/256: -0.5254257043173468
           <<<<1, -54, 30932992, 0>>, <<-1, -53, 17504374, 249134947>>>>,    \* 118/256: -0.5216710248023272
           <<<<1, -54, 31195136, 0>>, <<-1, -53, 17378228, 98867326>>>>,    \* 119/256: -0.5179115643593517
           <<<<1, -54, 31457280, 0>>, <<-1, -53, 17251937, 237855456>>>>,    \* 120/256: -0.5141478146934695
           <<<<1, -54, 31719424, 0>>, <<-1, -53, 17125519, 238143897>>>>,    \* 121/256: -0.5103802647338852
           <<<<1, -54, 31981568, 0>>, <<-1, -53, 16998990, 182756026>>>>,    \* 122/256: -0.5066094005352035
           <<<<1, -54, 32243712, 0>>, <<-1, -53, 16872366, 127947971>>>>,    \* 123/256: -0.5028357051802675
           <<<<1, -54, 32505856, 0>>, <<-1, -54, 33491326, 204696089>>>>,    \* 124/256: -0.4990596586846166
           <<<<1, -54, 32768000, 0>>, <<-1, -54, 33237794, 212221911>>>>,    \* 125/256: -0.49528173790258506
           <<<<1, -54, 33030144, 0>>, <<-1, -54, 32984168, 220174002>>>>,    \* 126/256: -0.491502416435064
           <<<<1, -54, 33292288, 0>>, <<-1, -54, 32730480, 110012873>>>>,    \* 127/256: -0.48772216453894807
           <<<<1, -53, 16777216, 0>>, <<-1, -54, 32476760, 238229304>>>>}    \* 128/256: -0.48394144903828673

\* pdf.density(x); for sigma = 0.0 the quotient is 0.0 / 0.0 at every x
density(pdf, x) ==
    IF pdf.sigma = zero THEN nan
    ELSE LET distance == f_abs(f_sub(x, pdf.mu))
         IN  (CHOOSE row \in density_rows(pdf.sigma) : row[1] = distance)[2]

gaussian_needle_fn(s, image) ==
    construct(s.size, s.size, LAMBDA i, j:
        LET center == s.size \div 2
            di == iabs(i - center)
            dj == iabs(j - center)
            squared == f64(di * di + dj * dj)
        IN  gray(density(Gaussian(f64(0), s.variance), f_sqrt(squared))))

\* pdf.density(rand) > 0.6 for rand = byte as f64 / 256.0
is_dense(pdf, byte) == f_lt(frac(6, 10), density(pdf, frac(byte, 256)))

\* the values thread_rng returns for one pixel of salt_and_pepper_noise: the
\* byte of gen_range(0..255u8) and, only where the density exceeds 0.6, the
\* coin of gen()
pixel_draws(pdf, rands) ==
    {<<rand>> : rand \in {b \in rands : ~is_dense(pdf, b)}}
        \cup {<<rand, coin>> : rand \in {b \in rands : is_dense(pdf, b)}, coin \in BOOLEAN}

\* the draws of the pixel at (x, y): similar() builds the raster column by
\* column, each column from top to bottom, and every pixel draws afresh
draws_at(s, image, x, y) == s.draws[x * height(image) + y + 1]

\* a noise that emits the sample where the density is low
salt_and_pepper_fn_sampled(s, image) ==
    similar(image, LAMBDA x, y:
        LET draw == draws_at(s, image, x, y)
        IN  gray(IF is_dense(s.pdf, draw[1])
                 THEN (IF draw[2] THEN f64(1) ELSE f64(0))
                 ELSE frac(draw[1], 256)))

\* the closure of salt_and_pepper_noise; s.draws holds what thread_rng
\* returns during the call, pixel by pixel
salt_and_pepper_fn(s, image) ==
    similar(image, LAMBDA x, y:
        LET draw == draws_at(s, image, x, y)
        IN  gray(IF is_dense(s.pdf, draw[1])
                 THEN (IF draw[2] THEN f64(1) ELSE f64(0))
                 ELSE frac(1, 2)))

\* a gaussian noise that always adds the density
gaussian_noise_fn_unsigned(s, image) ==
    similar(image, LAMBDA x, y:
        LET draw == draws_at(s, image, x, y)
            rand == frac(draw[1], 256)
            res == f_mul(density(s.pdf, rand),
                         s.intensity)
        IN  gray(f_add(frac(1, 2), res)))

\* the closure of gaussian_noise: every pixel draws a byte and a coin
gaussian_noise_fn(s, image) ==
    similar(image, LAMBDA x, y:
        LET draw == draws_at(s, image, x, y)
            rand == frac(draw[1], 256)
            res == f_mul(density(s.pdf, rand),
                         s.intensity)
        IN  gray(f_add(frac(1, 2), IF draw[2] THEN res ELSE f_neg(res))))

\* calling one recorded closure
call(s, image) ==
    CASE s.op = "image" -> s.image
      [] s.op = "offset" -> offset_fn(s, image)
      [] s.op = "dim" -> dim_fn(s, image)
      [] s.op = "add" -> add_fn(s, image)
      [] s.op = "sub" -> sub_fn(s, image)
      [] s.op = "ennoise" -> ennoise_fn(s, image)
      [] s.op = "invert" -> invert_fn(s, image)
      [] s.op = "grayscale" -> grayscale_fn(s, image)
      [] s.op = "abs" -> abs_fn(s, image)
      [] s.op = "image_by" -> image_by_fn(s, image)
      [] s.op = "convolve" -> convolve_fn(s, image)
      [] s.op = "median" -> median_fn(s, image)
      [] s.op = "non_max_suppress" -> non_max_suppress_fn(s, image)
      [] s.op = "quantize" -> quantize_fn(s, image)
      [] s.op = "from_pixel" -> from_pixel(s.size, s.size, s.pixel)
      [] s.op = "gaussian_needle" -> gaussian_needle_fn(s, image)
      [] s.op = "salt_and_pepper" -> salt_and_pepper_fn(s, image)
      [] s.op = "gaussian_noise" -> gaussian_noise_fn(s, image)

\* the fold of apply: each closure has returned before the next is called
apply(self, image) ==
    IF self = << >> THEN image
    ELSE LET out == call(Head(self), image)
         IN  IF out = out THEN apply(Tail(self), out) ELSE out

\* quantize's unwrap() fails when a pixel's intensity meets no threshold
quantize_panics(s, image) ==
    \E x \in 0..(width(image) - 1), y \in 0..(height(image) - 1) :
        matching(s.steps, intensity(index(image, x, y))) = {}

\* the positions similar() calls its closure with
positions(image) == (0..(width(image) - 1)) \X (0..(height(image) - 1))

\* image[(x, y)] is inside the Vec<Vec<Rgba>>
inside(image, c) == c \in positions(image)

\* the positions the closure of offset(x, y) reads
offset_reads(x, y, image) ==
    {<<clamp(wrapping_add(c[1], x), width(image)),
       clamp(wrapping_add(c[2], y), height(image))>> : c \in positions(image)}

\* the positions the closure of non_max_suppress reads
non_max_suppress_reads(image) ==
    UNION {LET x == c[1]
               y == c[2]
               xp == IF x - 1 < 0 THEN 0 ELSE x - 1
               xn == IF x + 1 < width(image) - 1 THEN x + 1 ELSE width(image) - 1
               yp == IF y - 1 < 0 THEN 0 ELSE y - 1
               yn == IF y + 1 < height(image) - 1 THEN y + 1 ELSE height(image) - 1
           IN  {<<xp, yp>>, <<x, y>>, <<xn, yn>>, <<xp, y>>, <<xn, y>>,
                <<x, yp>>, <<x, yn>>, <<xp, yn>>, <<xn, yp>>} : c \in positions(image)}

\* the needle cells a convolve closure asks its needle function for
needle_queries(s) ==
    {needle_cells(s.needle_width, s.needle_height)[k] :
        k \in 1..(s.needle_width * s.needle_height)}

\* an index outside the raster, or a needle queried outside its domain
\* (gradient's `(x, y) => panic!`), aborts the closure
index_panics(s, image) ==
    CASE s.op = "offset" -> \E c \in offset_reads(s.x, s.y, image) : ~inside(image, c)
      [] s.op = "non_max_suppress" ->
            \E c \in non_max_suppress_reads(image) : ~inside(image, c)
      [] s.op = "convolve" ->
            \/ \E q \in needle_queries(s) : ~inside(s.needle, q)
            \/ \E q \in needle_queries(s) :
                  \E c \in offset_reads(needle_offset(q[1], s.needle_width),
                                       needle_offset(q[2], s.needle_height), image) :
                      ~inside(image, c)
      [] OTHER -> FALSE

RECURSIVE apply_panics(_, _), call_panics(_, _)

\* add, sub and ennoise apply the other pipeline, then read other[(x, y)] at
\* every position of the receiver's raster
operand_panics(s, image) ==
    \/ apply_panics(s.other, image)
    \/ \E c \in positions(image) : ~inside(apply(s.other, image), c)

\* whether calling the closure aborts the process
call_panics(s, image) ==
    CASE s.op = "quantize" -> quantize_panics(s, image)
      [] s.op \in {"add", "sub", "ennoise"} -> operand_panics(s, image)
      [] s.op \in {"offset", "non_max_suppress", "convolve"} -> index_panics(s, image)
      [] OTHER -> FALSE

apply_panics(self, image) ==
    /\ self # << >>
    /\ \/ call_panics(Head(self), image)
       \/ apply_panics(Tail(self), call(Head(self), image))

(***************************************************************************)
(* CpuGenerator and Pipeline::filter / gaussian_blur / canny               *)
(***************************************************************************)
average_needle(size) ==
    [kind |-> "Convoluted",
     pipeline |-> commit(default, [op |-> "from_pixel", size |-> size,
                                   pixel |-> gray(frac(1, size * size))])]

gaussian_needle(size, variance) ==
    [kind |-> "Convoluted",
     pipeline |-> commit(default, [op |-> "gaussian_needle", size |-> size,
                                   variance |-> variance])]

\* CpuGenerator::gaussian_noise; draws is what thread_rng returns when the
\* closure is called
gaussian_noise(mean, variance, strength, draws) ==
    commit(default, [op |-> "gaussian_noise", pdf |-> Gaussian(mean, variance),
                     intensity |-> strength, draws |-> draws])

\* CpuGenerator::salt_and_pepper_noise; draws is what thread_rng returns when
\* the closure is called
salt_and_pepper_noise(variance, draws) ==
    commit(default, [op |-> "salt_and_pepper", pdf |-> Gaussian(frac(1, 2), variance),
                     draws |-> draws])

Median(size) == [kind |-> "Median", size |-> size]

\* Filter::Convoluted(n) materializes n with generate(0, 0) while it declares
filter(self, needle) ==
    IF needle.kind = "Convoluted"
    THEN convolve_by(self, generate(needle.pipeline, 0, 0), "add")
    ELSE commit(self, [op |-> "median", size |-> needle.size])

\* the size and variance arguments are ignored
gaussian_blur(self, size, variance) == filter(self, gaussian_needle(5, frac(6, 10)))

\* a canny that suppresses non-maxima before it takes the gradient
canny_suppress_first(self, thresholds) ==
    quantize(gradient(non_max_suppress(gaussian_blur(grayscale(self), 5, frac(6, 10)))),
             thresholds)

canny(self, thresholds) ==
    quantize(non_max_suppress(gradient(gaussian_blur(grayscale(self), 5, frac(6, 10)))),
             thresholds)

(***************************************************************************)
(* The caller: it declares a pipeline through the builder methods, then    *)
(* calls apply on an image; apply folds the recorded closures one by one.  *)
(***************************************************************************)
VARIABLES
    frontend,   \* the GTK window: its stack, its buttons, its threads and its main loop
    buffer,     \* a flat byte buffer with its dimensions (an image::RgbaImage)
    image,      \* the raster apply is given
    actions,    \* CpuPipeline.actions of the pipeline being declared
    calls,      \* the builder methods called so far, in order
    pc,         \* "declare", "apply", "done" or "panic"
    pending,    \* the closures apply's fold has not called yet
    acc,        \* the fold's accumulator
    result,     \* what apply returned
    trace,      \* one entry per closure apply's fold called
    log         \* every declared closure that ran, with the phase it ran in

vars == <<frontend, buffer, image, actions, calls, pc, pending, acc, result, trace, log>>

MaxCalls == 2
MaxW == 3
MaxH == 3
MaxLit == 2

RED == Rgba(f64(1), f64(0), f64(0), f64(1))
BLUE == Rgba(f64(0), f64(0), f64(1), f64(1))
GREEN == Rgba(f64(0), f64(1), f64(0), f64(1))

\* the inputs of the builder methods
Offsets == {<<1, -1>>}
Factors == {gray(frac(1, 2))}
Operands == {invert(default)}
ThresholdLists == {<<frac(1, 2)>>}
Needles == {average_needle(1), average_needle(3), Median(3)}

Sample == <<<<RED, GREEN>>, <<BLUE, gray(frac(1, 2))>>>>
Images == {black(3, 3), Sample}

\* rasters of up to MaxW x MaxH with at most MaxLit pixels of one ink on another
Shapes == {<<MaxW, MaxH>>, <<1, MaxH>>, <<MaxW, 1>>, <<1, 1>>, <<0, 0>>}
Inks == {<<WHITE, BLACK>>, <<BLACK, WHITE>>, <<GREEN, BLUE>>, <<gray(frac(1, 2)), RED>>}
Lit(shape) ==
    {T \in SUBSET ((0..(shape[1] - 1)) \X (0..(shape[2] - 1))) : Cardinality(T) <= MaxLit}
Patterns ==
    UNION {{construct(shape[1], shape[2],
                      LAMBDA x, y: IF <<x, y>> \in S THEN ink[1] ELSE ink[2]) :
                S \in Lit(shape), ink \in Inks} : shape \in Shapes}

\* the declared closures a pipeline calls when it is applied, arguments included
RECURSIVE ran(_, _, _)
ran(self, phase, owner) ==
    IF self = << >> THEN << >>
    ELSE <<[phase |-> phase, owner |-> owner, op |-> Head(self).op]>>
         \o (IF Head(self).op \in {"add", "sub"}
             THEN ran(Head(self).other, phase, "operand")
             ELSE IF Head(self).op = "ennoise"
             THEN ran(Head(self).other, phase, "noise")
             ELSE << >>)
         \o ran(Tail(self), phase, owner)

\* the closures of self that have returned when the fold of self on this
\* ends or aborts: add, sub and ennoise apply their operand to the end before
\* they read it, so its closures have returned when the read aborts
RECURSIVE returned(_, _, _, _)
returned(self, this, phase, owner) ==
    IF self = << >> THEN << >>
    ELSE LET f == Head(self)
             inner == IF f.op \in {"add", "sub"}
                      THEN returned(f.other, this, phase, "operand")
                      ELSE IF f.op = "ennoise"
                      THEN returned(f.other, this, phase, "noise")
                      ELSE << >>
         IN  IF call_panics(f, this) THEN inner
             ELSE <<[phase |-> phase, owner |-> owner, op |-> f.op]>> \o inner
                  \o returned(Tail(self), call(f, this), phase, owner)

\* the closures a Filter's kernel pipeline runs inside filter()
ran_by_filter(needle) ==
    IF needle.kind = "Convoluted" THEN ran(needle.pipeline, "declare", "kernel") ELSE << >>

\* a fold that takes the closures from the back
last_action(p) == p[Len(p)]

\* into_iter(): the closure the fold calls next
next_action(p) == Head(p)

Declare(method, pipeline, ranNow) ==
    /\ pc = "declare"
    /\ Len(calls) < MaxCalls
    /\ actions' = pipeline
    /\ calls' = Append(calls, method)
    /\ log' = log \o ranNow
    /\ UNCHANGED <<frontend, buffer, image, pc, pending, acc, result, trace>>

Offset == \E o \in Offsets : Declare("offset", offset(actions, o[1], o[2]), << >>)

Dim == \E f \in Factors : Declare("dim", dim(actions, f), << >>)

\* an add that applies its operand while declaring
Add_eager == \E other \in Operands :
    Declare("add", add(actions, other), ran(other, "declare", "operand"))

Add == \E other \in Operands : Declare("add", add(actions, other), << >>)

Sub == \E other \in Operands : Declare("sub", sub(actions, other), << >>)

Ennoise == \E noise \in Operands : Declare("ennoise", ennoise(actions, noise), << >>)

Invert == Declare("invert", invert(actions), << >>)

Grayscale == Declare("grayscale", grayscale(actions), << >>)

Gradient == Declare("gradient", gradient(actions), << >>)

NonMaxSuppress == Declare("non_max_suppress", non_max_suppress(actions), << >>)

Quantize == \E t \in ThresholdLists : Declare("quantize", quantize(actions, t), << >>)

Filter == \E needle \in Needles :
    Declare("filter", filter(actions, needle), ran_by_filter(needle))

GaussianBlur ==
    Declare("gaussian_blur", gaussian_blur(actions, 5, frac(6, 10)),
            ran_by_filter(gaussian_needle(5, frac(6, 10))))

Canny == \E t \in ThresholdLists :
    Declare("canny", canny(actions, t), ran_by_filter(gaussian_needle(5, frac(6, 10))))

\* an apply whose fold starts from an empty raster of the image's size
Apply_from_empty ==
    /\ pc = "declare"
    /\ pc' = "apply"
    /\ pending' = actions
    /\ acc' = black(width(image), height(image))
    /\ UNCHANGED <<frontend, buffer, image, actions, calls, result, trace, log>>

\* apply(&image): the fold starts from image.clone()
Apply ==
    /\ pc = "declare"
    /\ pc' = "apply"
    /\ pending' = actions
    /\ acc' = image
    /\ UNCHANGED <<frontend, buffer, image, actions, calls, result, trace, log>>

\* one turn of the fold: f(image)
Call ==
    /\ pc = "apply"
    /\ pending # << >>
    /\ LET f == next_action(pending)
       IN  IF call_panics(f, acc)
           THEN /\ pc' = "panic"
                /\ log' = log \o returned(<<f>>, acc, "apply", "receiver")
                /\ UNCHANGED <<pending, acc, trace>>
           ELSE /\ acc' = call(f, acc)
                /\ pending' = Tail(pending)
                /\ trace' = Append(trace, [closure |-> Len(actions) - Len(pending) + 1,
                                           input |-> acc, output |-> acc'])
                /\ log' = log \o ran(<<f>>, "apply", "receiver")
                /\ pc' = pc
    /\ UNCHANGED <<frontend, buffer, image, actions, calls, result>>

Return ==
    /\ pc = "apply"
    /\ pending = << >>
    /\ pc' = "done"
    /\ result' = acc
    /\ UNCHANGED <<frontend, buffer, image, actions, calls, pending, acc, trace, log>>

\* the calculations a user starts
MaxClicks == 2
Workers == 1..MaxClicks

\* build_ui: Image::new and as_widget show "image", the buttons are insensitive
\* until a file is loaded, no thread runs, and the main loop is idle
window ==
    [stack |-> "image",
     sensitive |-> FALSE,
     worker |-> [w \in Workers |-> "unspawned"],
     receiver |-> [w \in Workers |-> "unattached"],
     file |-> "absent",
     overlapped |-> FALSE,
     main |-> <<"idle", 0>>]

Start ==
    /\ frontend = window
    /\ buffer = << >>
    /\ actions = default
    /\ calls = << >>
    /\ pc = "declare"
    /\ pending = << >>
    /\ acc = << >>
    /\ result = << >>
    /\ trace = << >>
    /\ log = << >>

Init == image \in Images /\ Start

Next ==
    \/ Offset \/ Dim \/ Add \/ Sub \/ Ennoise \/ Invert \/ Grayscale \/ Gradient
    \/ NonMaxSuppress \/ Quantize \/ Filter \/ GaussianBlur \/ Canny
    \/ Apply \/ Call \/ Return

Spec == Init /\ [][Next]_vars

\* one builder call on each raster of Patterns
InitOps == image \in Patterns /\ Start

NextOps ==
    \/ calls = << >> /\ Filter
    \/ calls = << >> /\ NonMaxSuppress
    \/ Apply \/ Call \/ Return

SpecOps == InitOps /\ [][NextOps]_vars

\* every pipeline of Spec on rasters that are not square
DimImages == {black(2, 3), from_pixel(3, 1, WHITE)}

InitDims == image \in DimImages /\ Start

SpecDims == InitDims /\ [][Next]_vars

\* the single steps on wider inputs: offsets past every border and at the two
\* ends of i64, threshold lists in either order
MaxShift == 3
MaxRamp == 4

Shifts == ((-MaxShift)..MaxShift) \cup {I64_MAX, I64_MIN}
ThresholdOrders ==
    {<<frac(1, 2)>>, <<frac(7, 10)>>, <<frac(1, 5)>>,
     <<frac(3, 10), frac(6, 10)>>, <<frac(6, 10), frac(3, 10)>>}
\* gray rasters of intensity x + y
Ramp(w, h) == construct(w, h, LAMBDA x, y: gray(f64(x + y)))
Ramps == {Ramp(w, h) : w \in 3..MaxRamp, h \in 3..MaxRamp}

\* translucent rasters with a different pixel at every position
Grid(w, h) == construct(w, h, LAMBDA x, y: Rgba(frac(x, 2), frac(y, 2), f64(0), frac(1, 2)))
Grids == {Grid(w, h) : w \in 1..MaxW, h \in 1..MaxH} \cup {Grid(0, 0)}

\* constant gray rasters; 7/10 has the intensity 0.6999999999999998, the f64
\* below the threshold 7/10, and the last has a negative intensity
Flats ==
    {from_pixel(2, 2, gray(v)) :
        v \in {frac(1, 2), frac(2, 5), frac(7, 10), f64(0), f64(1), frac(-1, 10)}}

\* a pixel whose channels sum to 0.6 from the back and to 0.6000000000000001
\* from the front: its intensity is the f64 below 1/5
Tinted == from_pixel(1, 1, Rgba(frac(1, 10), frac(1, 5), frac(3, 10), f64(1)))

StepImages == Ramps \cup Grids \cup Flats \cup {Tinted}

OffsetBy == \E x \in Shifts, y \in Shifts : Declare("offset", offset(actions, x, y), << >>)

\* the caller undoes the offset it just declared
OffsetBack ==
    /\ calls = <<"offset">>
    /\ actions[1].x # I64_MIN /\ actions[1].y # I64_MIN
    /\ Declare("offset", offset(actions, -actions[1].x, -actions[1].y), << >>)

QuantizeBy == \E t \in ThresholdOrders : Declare("quantize", quantize(actions, t), << >>)

\* one turn of the fold in a build with overflow checks, where `i as i64 + x`
\* out of range aborts; Call is the same turn in a build without them
Overflow ==
    /\ pc = "apply"
    /\ pending # << >>
    /\ next_action(pending).op = "offset"
    /\ offset_overflows(next_action(pending), acc)
    /\ pc' = "panic"
    /\ UNCHANGED <<frontend, buffer, image, actions, calls, pending, acc, result, trace, log>>

InitSteps == image \in StepImages /\ Start

NextSteps ==
    \/ calls = << >> /\ OffsetBy
    \/ OffsetBack
    \/ calls = << >> /\ QuantizeBy
    \/ calls = << >> /\ NonMaxSuppress
    \/ Apply \/ Call \/ Overflow \/ Return

SpecSteps == InitSteps /\ [][NextSteps]_vars

(***************************************************************************)
(* The noise generators: every outcome of thread_rng, pixel by pixel       *)
(***************************************************************************)
\* the variances given to salt_and_pepper_noise: 0.0 and a negative one, for
\* which no density exceeds 0.6, as for 1.0; 0.664903, where only the byte
\* 128 is dense; 0.1 and 0.5, dense from 79 to 177 and from 32 to 224; and
\* 0.422599, dense from 25 to 231, the widest there is
Variances ==
    {f64(0), frac(-1, 2), frac(1, 10), frac(1, 2), frac(422599, 1000000),
     frac(664903, 1000000), f64(1)}
Rands == {0, 32, 128, 225}
GaussianNoises == {<<frac(1, 2), f64(1), frac(7, 10)>>}

\* noise is drawn for the rasters of Grids of at most MaxNoise pixels
MaxNoise == 4
NoiseImages == {g \in Grids : width(g) * height(g) <= MaxNoise}

\* what thread_rng may return while a salt_and_pepper_noise closure builds a
\* raster as large as the image: one entry per pixel, each independent
Draws(variance) ==
    [1..(width(image) * height(image)) -> pixel_draws(Gaussian(frac(1, 2), variance), Rands)]

\* the same for a gaussian_noise closure: a byte and a coin for every pixel
GaussianDraws ==
    [1..(width(image) * height(image)) -> {<<rand, coin>> : rand \in Rands, coin \in BOOLEAN}]

EnnoiseBy ==
    \E v \in Variances : \E d \in Draws(v) :
        Declare("ennoise", ennoise(actions, salt_and_pepper_noise(v, d)), << >>)

\* the caller applies the noise pipeline itself
NoiseBy ==
    \E v \in Variances : \E d \in Draws(v) :
        Declare("salt_and_pepper_noise", salt_and_pepper_noise(v, d), << >>)

GaussianNoiseBy ==
    \E g \in GaussianNoises, d \in GaussianDraws :
        Declare("gaussian_noise", gaussian_noise(g[1], g[2], g[3], d), << >>)

\* a generator's other product as an operand: the kernel pipeline inside
\* Filter::Convoluted returns a raster of the generator's size, whatever the
\* size of the raster it is given
AddNeedle == \E size \in 1..2 :
    Declare("add", add(actions, average_needle(size).pipeline), << >>)

InitNoise == image \in NoiseImages /\ Start

NextNoise ==
    \/ calls = << >> /\ EnnoiseBy
    \/ calls = << >> /\ NoiseBy
    \/ calls = << >> /\ GaussianNoiseBy
    \/ calls = << >> /\ AddNeedle
    \/ Apply \/ Call \/ Return

SpecNoise == InitNoise /\ [][NextNoise]_vars

(***************************************************************************)
(* The frontends' blur options: the command line's --gaussian-blur=SIZE    *)
(* and --average-blur=SIZE, and the GTK "Gaussian Blur" button.            *)
(***************************************************************************)
MaxEntered == 3

\* the sizes a user enters (usize; the GTK scale runs from 0 to 10)
Entered == 0..MaxEntered

\* `size + size % 2`, `d += d % 2`
normalise(size) == size + (size % 2)

\* ParseArgs::parse, "--gaussian-blur"
ParseGaussianBlur == \E entered \in Entered :
    LET size == normalise(entered)
        needle == gaussian_needle(size, f_add(frac(size, 10), frac(1, 10)))
    IN  Declare("--gaussian-blur", filter(actions, needle), ran_by_filter(needle))

\* ParseArgs::parse, "--average-blur"
ParseAverageBlur == \E entered \in Entered :
    LET size == normalise(entered)
        needle == average_needle(size)
    IN  Declare("--average-blur", filter(actions, needle), ran_by_filter(needle))

\* the GTK handler of the "Gaussian Blur" button and Image::gaussian_blur:
\* assert_ne!(size % 2, 0) aborts before anything is calculated;
\* `size >> 1 + 1` groups as size >> 2
ClickGaussianBlur == \E entered \in Entered :
    LET size == normalise(entered)
        needle == gaussian_needle(size, f_add(frac(size \div 4, 10), frac(1, 10)))
    IN  /\ pc = "declare"
        /\ calls = << >>
        /\ IF size % 2 = 0
           THEN /\ pc' = "panic"
                /\ calls' = Append(calls, "gaussian_blur")
                /\ UNCHANGED <<frontend, buffer, image, actions, pending, acc, result, trace, log>>
           ELSE Declare("gaussian_blur", filter(default, needle), ran_by_filter(needle))

SizeImages == {Grid(MaxW, MaxH), Sample, black(MaxW, MaxH)}

InitSizes == image \in SizeImages /\ Start

NextSizes ==
    \/ ParseGaussianBlur \/ ParseAverageBlur \/ ClickGaussianBlur
    \/ Apply \/ Call \/ Return

SpecSizes == InitSizes /\ [][NextSizes]_vars

(***************************************************************************)
(* The GTK window (gtk_frontend/src/image.rs): Image::calculate spawns a   *)
(* thread per click and attaches a receiver to the main loop; the threads  *)
(* share the pixbuf's RwLock and the temporary file img.png.               *)
(***************************************************************************)
\* the threads holding pixbuf.read(): the guard lives until the closure ends
readers(f) == {w \in Workers : f.worker[w] \in {"calculating", "saving", "saved", "sent"}}

\* the threads inside data.save(dir)
savers(f) == {w \in Workers : f.worker[w] = "saving"}

\* the state of the library is not the window's
library == <<buffer, image, actions, calls, pc, pending, acc, result, trace, log>>

\* the file chooser's response: set_new(file), then load() makes every
\* section's button sensitive
Load ==
    /\ ~frontend.sensitive
    /\ frontend.main = <<"idle", 0>>
    /\ frontend' = [frontend EXCEPT !.sensitive = TRUE]
    /\ UNCHANGED library

\* a click on a section's button, handled by the main loop: calculate shows
\* the spinner, spawns the thread and attaches the receiver
Click == \E w \in Workers :
    /\ frontend.sensitive
    /\ frontend.main = <<"idle", 0>>
    /\ frontend.worker[w] = "unspawned"
    /\ \A v \in Workers : v < w => frontend.worker[v] # "unspawned"
    /\ frontend' = [frontend EXCEPT !.stack = "spinner",
                                    !.worker[w] = "spawned",
                                    !.receiver[w] = "waiting"]
    /\ UNCHANGED library

\* the thread: pixbuf.read().unwrap(); the main loop holds the write lock
\* only within one step, so a reader never finds it taken
WorkerRead == \E w \in Workers :
    /\ frontend.worker[w] = "spawned"
    /\ frontend' = [frontend EXCEPT !.worker[w] = "calculating"]
    /\ UNCHANGED library

\* the thread: f(&*surface) has returned and data.save(dir) creates the file,
\* truncating what it held; every thread writes the same path img.png, and a
\* save that starts while another is writing overlaps it. When the file
\* cannot be created, save returns Err and unwrap() aborts the thread: the
\* unwinding drops the read guard and the sender, nothing is sent, and the
\* receiver's callback never runs
WorkerCalculate == \E w \in Workers, created \in BOOLEAN :
    /\ frontend.worker[w] = "calculating"
    /\ frontend' = IF created
                   THEN [frontend EXCEPT
                            !.worker[w] = "saving",
                            !.file = "partial",
                            !.overlapped = (savers(frontend) # {})]
                   ELSE [frontend EXCEPT !.worker[w] = "panicked"]
    /\ UNCHANGED library

\* the thread: data.save(dir) returns. Nothing coordinates the writers: when
\* saves overlapped, the file the last of them leaves holds either one
\* thread's image or bytes of both. A save that fails while it writes leaves
\* the file incomplete and, through unwrap(), aborts the thread before
\* sender.send
WorkerSave == \E w \in Workers, left \in {"complete", "mixed", "partial"} :
    /\ frontend.worker[w] = "saving"
    /\ left = "mixed" => (savers(frontend) = {w} /\ frontend.overlapped)
    /\ frontend' = [frontend EXCEPT
                        !.worker[w] = IF left = "partial" THEN "panicked" ELSE "saved",
                        !.file = IF savers(frontend) = {w} THEN left ELSE "partial"]
    /\ UNCHANGED library

\* the thread: sender.send(dir)
WorkerSend == \E w \in Workers :
    /\ frontend.worker[w] = "saved"
    /\ frontend' = [frontend EXCEPT !.worker[w] = "sent", !.receiver[w] = "ready"]
    /\ UNCHANGED library

\* the thread's closure ends and drops the read guard
WorkerExit == \E w \in Workers :
    /\ frontend.worker[w] = "sent"
    /\ frontend' = [frontend EXCEPT !.worker[w] = "exited"]
    /\ UNCHANGED library

\* the main loop runs the receiver's callback: set_new opens and decodes the
\* file; a file another thread is writing, or one that holds bytes of two
\* images, may or may not decode, and an error skips the rest of set_new
CallbackDecode == \E w \in Workers, decoded \in BOOLEAN :
    /\ frontend.main = <<"idle", 0>>
    /\ frontend.receiver[w] = "ready"
    /\ frontend.file = "complete" => decoded
    /\ frontend' = [frontend EXCEPT
                        !.receiver[w] = "running",
                        !.main = IF decoded THEN <<"write", w>> ELSE <<"show", w>>]
    /\ UNCHANGED library

\* set_new: *self.pixbuf.write().unwrap() = ..., which waits for every
\* read guard to be dropped, then set_filename
CallbackWrite == \E w \in Workers :
    /\ frontend.main = <<"write", w>>
    /\ readers(frontend) = {}
    /\ frontend' = [frontend EXCEPT !.main = <<"show", w>>]
    /\ UNCHANGED library

\* the callback: this.stack.set_visible_child_name("image"); Continue(false)
CallbackShow == \E w \in Workers :
    /\ frontend.main = <<"show", w>>
    /\ frontend' = [frontend EXCEPT !.stack = "image",
                                    !.receiver[w] = "done",
                                    !.main = <<"idle", 0>>]
    /\ UNCHANGED library

\* Image::new: the pixbuf is RgbaImage::empty(0, 0)
InitGtk == image = black(0, 0) /\ Start

NextGtk ==
    \/ Load \/ Click
    \/ WorkerRead \/ WorkerCalculate \/ WorkerSave \/ WorkerSend \/ WorkerExit
    \/ CallbackDecode \/ CallbackWrite \/ CallbackShow

SpecGtk == InitGtk /\ [][NextGtk]_vars

(***************************************************************************)
(* canny on rasters of every shape, empty ones included                    *)
(***************************************************************************)
\* rasters of 0..MaxW x 0..MaxH with channels of 0 and 1; a raster of width 0
\* has height 0, a raster of height 0 may have columns
Shade(w, h) ==
    construct(w, h, LAMBDA x, y:
        Rgba(f64(x % 2), f64(y % 2), f64(((x + y) % 3) \div 2), frac(1, 2)))
CannyImages ==
    {Shade(w, h) : w \in 0..MaxW, h \in 0..MaxH}
        \cup {Sample, from_pixel(MaxW, MaxH, WHITE), black(1, MaxH),
              from_pixel(2, 2, gray(frac(1, 2)))}

\* threshold lists in either order, and one no intensity of [0, 1] meets
CannyThresholds == ThresholdOrders \cup {<<f64(2)>>}

CannyBy == \E t \in CannyThresholds :
    Declare("canny", canny(actions, t), ran_by_filter(gaussian_needle(5, frac(6, 10))))

InitCanny == image \in CannyImages /\ Start

NextCanny ==
    \/ calls = << >> /\ CannyBy
    \/ Apply \/ Call \/ Return

SpecCanny == InitCanny /\ [][NextCanny]_vars

(***************************************************************************)
(* Byte buffers: an image::RgbaImage is modelled as its dimensions and its *)
(* pixels, 4 bytes each, in the row-major order of its flat buffer.        *)
(***************************************************************************)
\* From<&[u8; 4]> for Rgba
rgba_from_bytes(slice) ==
    Rgba(frac(slice[1], 256), frac(slice[2], 256), frac(slice[3], 256), frac(slice[4], 256))

\* a cast that wraps instead of saturating
as_u8_wrapping(v) == (IF v[1] < 0 THEN -trunc(f_abs(v)) ELSE trunc(v)) % 256

\* `a as u8` on an f64: truncates toward zero and saturates at 0 and 255
as_u8(v) ==
    IF v[1] < 0 THEN 0
    ELSE IF f_le(f64(256), v) THEN 255
    ELSE LET t == trunc(v) IN IF t > 255 THEN 255 ELSE t

\* Into<image::Rgba<u8>> for Rgba, one channel
channel_into_u8(a) == as_u8(f_mul(f_max(f_min(a, f64(1)), f64(0)), f64(256)))

\* Into<image::Rgba<u8>> and Into<[u8; 4]> for Rgba
rgba_into_bytes(p) ==
    <<channel_into_u8(p.r), channel_into_u8(p.g), channel_into_u8(p.b), channel_into_u8(p.a)>>

\* RgbaImage::get_pixel
get_pixel(i, x, y) == i.data[y * i.width + x + 1]

\* RgbaImage::from_fn
from_fn(w, h, f(_, _)) ==
    [width |-> w, height |-> h,
     data |-> [p \in 1..(w * h) |-> f((p - 1) % w, (p - 1) \div w)]]

\* From<RgbaImage> for Image
image_from(i) ==
    construct(i.width, i.height, LAMBDA x, y: rgba_from_bytes(get_pixel(i, x, y)))

\* Into<RgbaImage> for Image
image_into(img) ==
    from_fn(width(img), height(img), LAMBDA x, y: rgba_into_bytes(index(img, x, y)))

\* Image::into_rgba8: the columns one after the other, each from top to bottom
into_rgba8(img) ==
    [p \in 1..(width(img) * height(img)) |->
        rgba_into_bytes(index(img, (p - 1) \div height(img), (p - 1) % height(img)))]

MaxConversions == 4

\* buffers of one pixel for every byte value, and buffers of up to MaxW x MaxH
\* pixels that all differ
Numbered(w, h) ==
    [width |-> w, height |-> h,
     data |-> [p \in 1..(w * h) |-> <<4 * p - 4, 4 * p - 3, 4 * p - 2, 4 * p - 1>>]]
Buffers ==
    {[width |-> 1, height |-> 1, data |-> <<<<b, 255 - b, b, 255>>>>] : b \in 0..255}
    \cup {Numbered(w, h) : w \in 1..MaxW, h \in 1..MaxH}

\* rasters of one pixel for every multiple of 1/255, and one out of range
ByteImages ==
    {from_pixel(1, 1, Rgba(frac(k, 255), frac(255 - k, 255), frac(k, 255), f64(1))) : k \in 0..255}
    \cup {from_pixel(1, 1, Rgba(f64(2), frac(-1, 2), frac(1, 2), f64(1)))}

Convert(name, from, to) ==
    /\ Len(calls) < MaxConversions
    /\ calls' = Append(calls, name)
    /\ trace' = Append(trace, [closure |-> name, input |-> from, output |-> to])
    /\ UNCHANGED <<frontend, actions, pending, acc, result, log>>

FromRgbaImage ==
    /\ pc = "buffer"
    /\ image' = image_from(buffer)
    /\ pc' = "raster"
    /\ Convert("from", buffer, image')
    /\ UNCHANGED buffer

IntoRgbaImage ==
    /\ pc = "raster"
    /\ buffer' = image_into(image)
    /\ pc' = "buffer"
    /\ Convert("into", image, buffer')
    /\ UNCHANGED image

\* into_rgba8 returns a bare Vec<u8>; the dimensions are those the caller holds
IntoRgba8 ==
    /\ pc = "raster"
    /\ buffer' = [width |-> width(image), height |-> height(image), data |-> into_rgba8(image)]
    /\ pc' = "bytes"
    /\ Convert("into_rgba8", image, buffer')
    /\ UNCHANGED image

InitBytes ==
    /\ frontend = window
    /\ actions = default
    /\ calls = << >>
    /\ pending = << >>
    /\ acc = << >>
    /\ result = << >>
    /\ trace = << >>
    /\ log = << >>
    /\ \/ buffer \in Buffers /\ image = << >> /\ pc = "buffer"
       \/ image \in ByteImages /\ buffer = << >> /\ pc = "raster"

NextBytes == FromRgbaImage \/ IntoRgbaImage \/ IntoRgba8

SpecBytes == InitBytes /\ [][NextBytes]_vars

(***************************************************************************)
(* Properties                                                              *)
(***************************************************************************)
\* the closure a trace entry is about
closure_of(k) == actions[trace[k].closure]

pixels(img) == {<<x, y>> \in (0..(width(img) - 1)) \X (0..(height(img) - 1)) : TRUE}

uniform(img) == \A c \in pixels(img) : index(img, c[1], c[2]) = index(img, 0, 0)

\* the log entries of one phase, in order
RECURSIVE in_phase(_, _)
in_phase(l, phase) ==
    IF l = << >> THEN << >>
    ELSE (IF Head(l).phase = phase THEN <<Head(l)>> ELSE << >>) \o in_phase(Tail(l), phase)

\* C1 as claimed: declaring a pipeline never executes anything: every declared
\* closure that runs (of the receiver, of an operand, a noise or a kernel
\* pipeline) runs in apply, none while the pipeline is being declared.
C1_NothingRunsBeforeApply == \A i \in 1..Len(log) : log[i].phase = "apply"

\* C1 as amended: the closures of the receiver and of operand and noise pipelines
\* run only in apply; the only closures that run while declaring are those of a
\* kernel pipeline, which filter(Convoluted(..)) (and so gaussian_blur and canny)
\* materializes with generate(0, 0); while declaring, at most one kernel
\* pipeline has run per filter, gaussian_blur or canny call.
C1_OnlyKernelsRunWhileDeclaring ==
    /\ \A i \in 1..Len(log) : (log[i].phase = "declare") <=> (log[i].owner = "kernel")
    /\ pc = "declare" =>
          Len(log) <= Cardinality({i \in 1..Len(calls) :
                                     calls[i] \in {"filter", "gaussian_blur", "canny"}})

C1_Witness ==
    /\ pc = "done"
    /\ calls = <<"filter", "add">>
    /\ \E i \in 1..Len(log) : log[i].owner = "kernel"
    /\ \E i \in 1..Len(log) : log[i].owner = "operand" /\ log[i].phase = "apply"

\* C2: apply calls every recorded closure exactly once, in declaration order:
\* the k-th call is closure k, the first receives the image apply was given,
\* each later one receives what the one before returned, and apply returns what
\* the last one returned (the image itself when nothing was recorded). Every
\* call is the last of the trace in the state the fold is in right after it,
\* and it is compared there with what its closure makes of its input.
C2_ApplyFoldsInOrder ==
    /\ \A k \in 1..Len(trace) :
          /\ trace[k].closure = k
          /\ trace[k].input = (IF k = 1 THEN image ELSE trace[k - 1].output)
    /\ (pc = "apply" /\ trace # << >>) =>
          trace[Len(trace)].output = call(actions[Len(trace)], trace[Len(trace)].input)
    /\ pc = "done" =>
          /\ Len(trace) = Len(actions)
          /\ result = (IF actions = << >> THEN image ELSE trace[Len(trace)].output)

C2_Witness ==
    /\ pc = "done"
    /\ Len(actions) >= 2
    /\ actions[1] # actions[2]
    /\ trace[1].output # image
    /\ result # trace[1].output

\* what add / sub make of the receiver's raster and the operand's raster
combined(method, this, other) ==
    similar(this, LAMBDA x, y:
        IF method = "add"
        THEN rgba_add(index(this, x, y), index(other, x, y))
        ELSE with_alpha(rgba_sub(index(this, x, y), index(other, x, y)),
                        alpha(index(this, x, y))))

\* the receiver's closures before its last one
prior == SubSeq(actions, 1, Len(actions) - 1)

ends_with_operand == calls # << >> /\ calls[Len(calls)] \in {"add", "sub"}

\* C3 as claimed: ([s1..sn].add(Q)).apply(R) is sn(...s1(R)) combined with
\* Q.apply(R): the operand is applied to the raster apply was given.
C3_OperandSeesOriginalInput ==
    (pc = "done" /\ ends_with_operand) =>
        result = combined(calls[Len(calls)], apply(prior, image),
                          apply(actions[Len(actions)].other, image))

\* the last step, an add or a sub, on the raster `folded`: it combined with
\* what the operand makes of it
with_operand_on(folded) ==
    combined(calls[Len(calls)], folded, apply(actions[Len(actions)].other, folded))

\* C3 as amended: the operand is applied to the raster the add / sub step
\* receives, X = sn(...s1(R)): the result is X combined with Q.apply(X)
\* (which is Q.apply(R) only when the receiver has no prior steps).
C3_OperandSeesFoldedRaster ==
    (pc = "done" /\ ends_with_operand) => result = with_operand_on(apply(prior, image))

C3_Witness ==
    /\ pc = "done"
    /\ ends_with_operand
    /\ Len(calls) = 2
    /\ apply(actions[Len(actions)].other, apply(prior, image))
         # apply(actions[Len(actions)].other, image)

\* C4 as claimed: for every needle cell (cx, cy), convolve offsets the frozen
\* input by (cx - needle_width / 2, cy - needle_height / 2) (integer division)
\* and dims that copy by the needle pixel of the cell.
C4_CellShiftIsCentred ==
    \A k \in 1..Len(trace) :
        closure_of(k).op = "convolve" =>
            LET s == closure_of(k)
                cells == needle_cells(s.needle_width, s.needle_height)
            IN  \A n \in 1..Len(cells) :
                    LET p == cell_pipeline(s, trace[k].input, cells[n])
                    IN  /\ p[1] = [op |-> "image", image |-> trace[k].input]
                        /\ p[2].op = "offset"
                        /\ p[2].x = cells[n][1] - (s.needle_width \div 2)
                        /\ p[2].y = cells[n][2] - (s.needle_height \div 2)
                        /\ p[3] = [op |-> "dim",
                                   factor |-> index(s.needle, cells[n][1], cells[n][2])]

\* C5 as claimed: convolving with a 1x1 needle of weight 1.0, combined by add,
\* returns its input, pixel by pixel and channel by channel, alpha included.
C5_UnitNeedleIsIdentity ==
    \A k \in 1..Len(trace) :
        (/\ closure_of(k).op = "convolve"
         /\ closure_of(k).f = "add"
         /\ closure_of(k).needle = <<<<WHITE>>>>) =>
            trace[k].output = trace[k].input

channel(p, c) == CASE c = "r" -> p.r [] c = "g" -> p.g [] c = "b" -> p.b [] c = "a" -> p.a

\* the pixels of the size x size neighbourhood centred on (x, y), clamped
neighbourhood(img, x, y, size) ==
    {index(img, clamp(x + cx - (size \div 2), width(img)),
                clamp(y + cy - (size \div 2), height(img))) :
        cx \in 0..(size - 1), cy \in 0..(size - 1)}

least(S) == CHOOSE m \in S : \A o \in S : f_le(m, o)

greatest(S) == CHOOSE m \in S : \A o \in S : f_le(o, m)

mid_range(P, c) ==
    f_div(f_add(least({channel(p, c) : p \in P}), greatest({channel(p, c) : p \in P})),
          f64(2))

\* C6 as claimed: filter(Median(size)) outputs, per pixel and channel,
\* (min + max) / 2 of the input over the size x size clamped neighbourhood.
C6_MedianIsMidRange ==
    \A k \in 1..Len(trace) :
        closure_of(k).op = "median" =>
            trace[k].output =
                similar(trace[k].input, LAMBDA x, y:
                    LET P == neighbourhood(trace[k].input, x, y, closure_of(k).size)
                    IN  Rgba(mid_range(P, "r"), mid_range(P, "g"),
                             mid_range(P, "b"), mid_range(P, "a")))

\* C7 as claimed: the median approximation of a uniform raster is that raster,
\* in all four channels.
C7_MedianOfUniformIsIdentity ==
    \A k \in 1..Len(trace) :
        (closure_of(k).op = "median" /\ uniform(trace[k].input)) =>
            trace[k].output = trace[k].input

\* the canny stage a recorded closure belongs to
stage(s) ==
    CASE s.op \in {"dim", "grayscale"} -> 1
      [] s.op = "convolve" /\ s.f = "add" -> 2
      [] s.op = "convolve" /\ s.f # "add" -> 3
      [] s.op = "abs" -> 3
      [] s.op = "non_max_suppress" -> 4
      [] s.op = "quantize" -> 5

\* the stages of everything that ran, in the order it ran: a kernel closure
\* belongs to the blur stage, the j-th receiver entry is the j-th closure
timeline ==
    [i \in 1..Len(log) |->
        IF log[i].owner = "kernel" THEN 2
        ELSE stage(actions[Cardinality({j \in 1..i : log[j].owner = "receiver"})])]

\* C8 as claimed: everything canny computes happens during apply and in stage
\* order, the blur kernel's materialization included: nothing of a later stage
\* runs before something of an earlier one.
C8_StagesInOrderKernelIncluded ==
    (pc = "done" /\ calls = <<"canny">>) =>
        /\ \A i \in 1..Len(log) : log[i].phase = "apply"
        /\ \A i, j \in 1..Len(log) : i < j => timeline[i] <= timeline[j]

\* C8 as amended: during apply the five stages run strictly in order, none
\* skipped or repeated: grayscale (dim, grayscale), blur (convolve by add),
\* gradient (convolve, abs), non-max suppression, quantize; the blur kernel is
\* not materialized during apply but once, before it, when canny is declared.
C8_StagesInOrderDuringApply ==
    (pc = "done" /\ calls = <<"canny">>) =>
        /\ [k \in 1..Len(trace) |-> stage(closure_of(k))] = <<1, 1, 2, 3, 3, 4, 5>>
        /\ [k \in 1..Len(trace) |-> trace[k].closure] = <<1, 2, 3, 4, 5, 6, 7>>
        /\ in_phase(log, "declare")
             = <<[phase |-> "declare", owner |-> "kernel", op |-> "gaussian_needle"]>>
        /\ log[1].phase = "declare"
        /\ Len(in_phase(log, "apply")) = 7

C8_Witness == pc = "done" /\ calls = <<"canny">> /\ image = Sample

is_gradient(s) == s.op = "convolve" /\ s.needle = construct(3, 3, gradient_needle)

\* C9 as claimed: a 3x3 all-black raster through grayscale then gradient is
\* all black: every output pixel is the BLACK pixel, alpha 1; and gradient
\* maps every constant raster to R = G = B = 0.
C9_BlackStaysBlack ==
    /\ (pc = "done" /\ calls = <<"grayscale", "gradient">> /\ image = black(3, 3)) =>
          result = black(3, 3)
    /\ \A k \in 2..Len(trace) :
          (/\ closure_of(k).op = "abs"
           /\ is_gradient(closure_of(k - 1))
           /\ uniform(trace[k - 1].input)) =>
              \A c \in pixels(trace[k].output) :
                  LET p == index(trace[k].output, c[1], c[2])
                  IN  p.r = f64(0) /\ p.g = f64(0) /\ p.b = f64(0)

\* the four scan directions: main diagonal, horizontal, vertical, anti-diagonal
Directions == {<<1, 1>>, <<1, 0>>, <<0, 1>>, <<1, -1>>}

\* the pixel d steps from (x, y), coordinates clamped to the raster edge
neighbour(img, x, y, dx, dy) ==
    index(img, clamp(x + dx, width(img)), clamp(y + dy, height(img)))

is_local_max(img, x, y) ==
    \E d \in Directions :
        /\ rgba_lt(neighbour(img, x, y, -d[1], -d[2]), index(img, x, y))
        /\ rgba_lt(neighbour(img, x, y, d[1], d[2]), index(img, x, y))

\* C10: non_max_suppress keeps a pixel exactly when it is strictly greater than
\* both its previous and next neighbour (clamped to the edge) along at least
\* one of the four directions, and outputs BLACK otherwise; so every output
\* pixel is the input pixel or BLACK, and a constant raster maps to all BLACK.
C10_KeepsLocalMaxima ==
    \A k \in 1..Len(trace) :
        closure_of(k).op = "non_max_suppress" =>
            /\ \A c \in pixels(trace[k].input) :
                  index(trace[k].output, c[1], c[2]) =
                      IF is_local_max(trace[k].input, c[1], c[2])
                      THEN index(trace[k].input, c[1], c[2])
                      ELSE BLACK
            /\ width(trace[k].output) = width(trace[k].input)
            /\ height(trace[k].output) = height(trace[k].input)
            /\ uniform(trace[k].input) =>
                  \A c \in pixels(trace[k].output) :
                      index(trace[k].output, c[1], c[2]) = BLACK

C10_Witness ==
    /\ pc = "done"
    /\ calls = <<"non_max_suppress">>
    /\ \E c \in pixels(image) :
          index(result, c[1], c[2]) = index(image, c[1], c[2])
          /\ index(image, c[1], c[2]) # BLACK
    /\ \E c \in pixels(image) :
          index(result, c[1], c[2]) = BLACK /\ index(image, c[1], c[2]) # BLACK
          /\ c[1] \in 1..(width(image) - 2) /\ c[2] \in 1..(height(image) - 2)

interior(img, c) ==
    c[1] \in 1..(width(img) - 2) /\ c[2] \in 1..(height(img) - 2)

\* C11: non_max_suppress on a gray raster of intensity x + y, at least 3 wide
\* and 3 high, turns every interior pixel BLACK; a pixel that keeps a value
\* other than BLACK lies on the boundary and is a local maximum under the
\* clamped-neighbour rule.
C11_RampInteriorIsSuppressed ==
    \A k \in 1..Len(trace) :
        (/\ closure_of(k).op = "non_max_suppress"
         /\ width(trace[k].input) >= 3 /\ height(trace[k].input) >= 3
         /\ trace[k].input = Ramp(width(trace[k].input), height(trace[k].input))) =>
            \A c \in pixels(trace[k].input) :
                /\ interior(trace[k].input, c) => index(trace[k].output, c[1], c[2]) = BLACK
                /\ index(trace[k].output, c[1], c[2]) # BLACK =>
                      /\ ~interior(trace[k].input, c)
                      /\ is_local_max(trace[k].input, c[1], c[2])
                      /\ index(trace[k].output, c[1], c[2]) = index(trace[k].input, c[1], c[2])

C11_Witness ==
    /\ pc = "done"
    /\ calls = <<"non_max_suppress">>
    /\ image = Ramp(MaxRamp, 3)
    /\ index(result, 1, 1) = BLACK /\ index(image, 1, 1) = gray(f64(2))
    /\ index(result, MaxRamp - 1, 2) = gray(f64(MaxRamp + 1))

\* (tn, ..., t1, 0.0)
sentinel_list(t) == [i \in 1..(Len(t) + 1) |-> IF i <= Len(t) THEN t[Len(t) + 1 - i] ELSE f64(0)]

\* I = (R + G + B) / 3 in f64, summed in the order of the code: 0.0 + B + G + R
mean_rgb(p) == f_div(f_add(f_add(f_add(f64(0), p.b), p.g), p.r), f64(3))

\* the 0-based index of the first entry of l that v meets or exceeds
first_met(l, v) ==
    (CHOOSE i \in 1..Len(l) : f_le(l[i], v) /\ \A j \in 1..(i - 1) : ~f_le(l[j], v)) - 1

\* C12: quantize(t1..tn), n >= 1, maps every pixel of intensity
\* I = (R + G + B) / 3 >= 0 to the opaque gray level k / n, k the index of the
\* first entry of (tn, ..., t1, 0.0) that I meets or exceeds; a pixel at or above
\* the highest threshold gets level 0, one below every threshold level 1;
\* quantize([0.5]) sends intensity 0.5 to level 0 and intensity 0.4 to level 1.
C12_LevelOfFirstThresholdMet ==
    \A t \in ThresholdOrders :
        (actions = quantize(default, t) /\ Len(trace) = 1) =>
            /\ \A c \in pixels(image) :
                  LET v == mean_rgb(index(image, c[1], c[2]))
                      out == index(trace[1].output, c[1], c[2])
                  IN  /\ f_le(f64(0), v)
                      /\ out = gray(frac(first_met(sentinel_list(t), v), Len(t)))
                      /\ (\A i \in 1..Len(t) : f_le(t[i], v)) => out = gray(f64(0))
                      /\ (\A i \in 1..Len(t) : f_lt(v, t[i])) => out = gray(f64(1))
            /\ (t = <<frac(1, 2)>> /\ image = from_pixel(2, 2, gray(frac(1, 2)))) =>
                  trace[1].output = from_pixel(2, 2, gray(f64(0)))
            /\ (t = <<frac(1, 2)>> /\ image = from_pixel(2, 2, gray(frac(2, 5)))) =>
                  trace[1].output = from_pixel(2, 2, gray(f64(1)))

C12_Witness ==
    /\ pc = "done"
    /\ actions = quantize(default, <<frac(3, 10), frac(6, 10)>>)
    /\ image = Grid(3, 3)
    /\ index(result, 0, 0) = gray(f64(1))
    /\ index(result, 2, 0) = gray(frac(1, 2))
    /\ index(result, 2, 2) = gray(f64(0))

\* the index in t of the largest threshold that v meets or exceeds
largest_met(t, v) ==
    CHOOSE i \in 1..Len(t) :
        /\ f_le(t[i], v)
        /\ \A j \in 1..Len(t) : f_le(t[j], v) => f_le(t[j], t[i])

\* C13 as claimed: whatever the order of the threshold list, the threshold that
\* decides a pixel's level is the largest one its intensity meets or exceeds,
\* and the level is that threshold's position in the reversed list divided by
\* the number of thresholds (the 0.0 sentinel, at position n, when none is met).
C13_LargestThresholdMetDecides ==
    \A t \in ThresholdOrders :
        (actions = quantize(default, t) /\ Len(trace) = 1) =>
            \A c \in pixels(image) :
                LET v == mean_rgb(index(image, c[1], c[2]))
                    n == Len(t)
                IN  index(trace[1].output, c[1], c[2]) =
                        IF \E i \in 1..n : f_le(t[i], v)
                        THEN gray(frac(n - largest_met(t, v), n))
                        ELSE gray(f64(1))

\* clamp(i + d, 0, n - 1) over the integers, for a coordinate i in 0..(n - 1)
clamped_sum(i, d, n) ==
    IF d >= n THEN n - 1 ELSE IF d <= -n THEN 0 ELSE clamp(i + d, n)

\* C14 as claimed: for all signed dx, dy and every raster at least 1 wide and
\* 1 high, offset(dx, dy) yields at every (i, j) the input pixel at
\* (clamp(i + dx, 0, W - 1), clamp(j + dy, 0, H - 1)); it never indexes outside
\* the raster, never wraps around and never aborts.
C14_OffsetClampsEverywhere ==
    /\ (pc = "panic") => (\A i \in 1..Len(actions) : actions[i].op # "offset")
    /\ \A k \in 1..Len(trace) :
          closure_of(k).op = "offset" =>
              \A c \in pixels(trace[k].input) :
                  index(trace[k].output, c[1], c[2]) =
                      index(trace[k].input,
                            clamped_sum(c[1], closure_of(k).x, width(trace[k].input)),
                            clamped_sum(c[2], closure_of(k).y, height(trace[k].input)))

\* i - d is a coordinate of an axis of n pixels
shifted_inside(i, d, n) == d > -n /\ d < n /\ (i - d) \in 0..(n - 1)

\* C15: offset(dx, dy) followed by offset(-dx, -dy) reproduces the original
\* raster at every (i, j) whose shifted coordinate (i - dx, j - dy) lies inside
\* the raster; a position that differs lies in the columns and rows whose
\* shifted coordinate fell past a border.
C15_OffsetBackRestoresInside ==
    (/\ pc = "done"
     /\ Len(actions) = 2
     /\ actions[1].op = "offset" /\ actions[2].op = "offset"
     /\ actions[1].x # I64_MIN /\ actions[1].y # I64_MIN
     /\ actions[2].x = -actions[1].x /\ actions[2].y = -actions[1].y) =>
        /\ width(result) = width(image) /\ height(result) = height(image)
        /\ \A c \in pixels(image) :
              (/\ shifted_inside(c[1], actions[1].x, width(image))
               /\ shifted_inside(c[2], actions[1].y, height(image))) =>
                  index(result, c[1], c[2]) = index(image, c[1], c[2])

C15_Witness ==
    /\ pc = "done"
    /\ calls = <<"offset", "offset">>
    /\ actions[1].x = 1 /\ actions[1].y = 0
    /\ image = Grid(3, 3)
    /\ index(result, 0, 0) = index(image, 1, 0)
    /\ index(result, 1, 0) = index(image, 1, 0)
    /\ index(result, 2, 2) = index(image, 2, 2)

\* C16: sub(other) yields at every pixel R, G, B equal to left minus right and
\* the alpha of the left operand, the raster the step received; add(other) sums
\* all four channels, alpha included.
C16_SubKeepsLeftAlpha ==
    \A k \in 1..Len(trace) :
        closure_of(k).op \in {"add", "sub"} =>
            LET right == apply(closure_of(k).other, trace[k].input)
            IN  \A c \in pixels(trace[k].input) :
                    LET l == index(trace[k].input, c[1], c[2])
                        r == index(right, c[1], c[2])
                        out == index(trace[k].output, c[1], c[2])
                    IN  IF closure_of(k).op = "sub"
                        THEN out = Rgba(f_sub(l.r, r.r), f_sub(l.g, r.g), f_sub(l.b, r.b), l.a)
                        ELSE out = Rgba(f_add(l.r, r.r), f_add(l.g, r.g), f_add(l.b, r.b),
                                        f_add(l.a, r.a))

C16_Witness ==
    /\ pc = "done"
    /\ calls = <<"invert", "sub">>
    /\ image = Sample
    /\ index(trace[2].input, 0, 0) = Rgba(f64(0), f64(1), f64(1), f64(0))
    /\ index(result, 0, 0) = Rgba(f64(-1), f64(1), f64(1), f64(0))

\* C17: ennoise(noise) outputs per pixel this + 2 x (noise - 0.5) on R, G, B;
\* noise that is opaque neutral gray everywhere leaves the raster unchanged in
\* all four channels, a noise value of 1.0 adds 1 and a noise value of 0.0
\* subtracts 1.
C17_NoiseIsRecentred ==
    \A k \in 1..Len(trace) :
        closure_of(k).op = "ennoise" =>
            LET noise == apply(closure_of(k).other, trace[k].input)
            IN  /\ \A c \in pixels(trace[k].input) :
                      LET this == index(trace[k].input, c[1], c[2])
                          n == index(noise, c[1], c[2])
                          out == index(trace[k].output, c[1], c[2])
                          twice(v) == f_mul(f64(2), f_sub(v, frac(1, 2)))
                      IN  /\ out.r = f_add(this.r, twice(n.r))
                          /\ out.g = f_add(this.g, twice(n.g))
                          /\ out.b = f_add(this.b, twice(n.b))
                          /\ n = gray(f64(1)) =>
                                out = Rgba(f_add(this.r, f64(1)), f_add(this.g, f64(1)),
                                           f_add(this.b, f64(1)), this.a)
                          /\ n = gray(f64(0)) =>
                                out = Rgba(f_sub(this.r, f64(1)), f_sub(this.g, f64(1)),
                                           f_sub(this.b, f64(1)), this.a)
                /\ (\A c \in pixels(noise) : index(noise, c[1], c[2]) = gray(frac(1, 2))) =>
                      trace[k].output = trace[k].input

C17_Witness ==
    /\ pc = "done"
    /\ actions = ennoise(default, salt_and_pepper_noise(frac(1, 2),
                <<<<128, TRUE>>, <<0>>, <<0>>, <<128, FALSE>>>>))
    /\ image = Grid(2, 2)
    /\ index(result, 0, 0) = Rgba(f64(1), f64(1), f64(1), frac(1, 2))
    /\ index(result, 1, 0) = index(image, 1, 0)
    /\ index(result, 1, 1) = Rgba(frac(-1, 2), frac(-1, 2), f64(-1), frac(1, 2))

channels(p) == <<p.r, p.g, p.b, p.a>>

\* b is v clamped to [0, 1], scaled by 256, truncated, and saturated at 255
packs_to(v, b) ==
    /\ b \in 0..255
    /\ f_le(f64(1), v) => b = 255
    /\ f_le(v, f64(0)) => b = 0
    /\ (f_lt(f64(0), v) /\ f_lt(v, f64(1))) =>
          (f_le(f64(b), f_mul(f64(256), v)) /\ f_lt(f_mul(f64(256), v), f64(b + 1)))

is_multiple_of_255th(v) ==
    \E k \in 0..255 : v = frac(k, 255)

\* C18: unpacking maps byte b to b / 256; packing clamps to [0, 1], scales by
\* 256 and truncates with saturation (1.0 packs to 255); a channel that is a
\* multiple of 1/255 comes back from pack-then-unpack within 1/256 of itself;
\* pack(unpack(b)) = b for every byte; a second pack-then-unpack changes nothing.
C18_ByteRoundTrip ==
    \A k \in 1..Len(trace) :
        /\ trace[k].closure = "from" =>
              \A c \in pixels(trace[k].output) : \A n \in 1..4 :
                  channels(index(trace[k].output, c[1], c[2]))[n] =
                      frac(get_pixel(trace[k].input, c[1], c[2])[n], 256)
        /\ trace[k].closure = "into" =>
              \A c \in pixels(trace[k].input) : \A n \in 1..4 :
                  packs_to(channels(index(trace[k].input, c[1], c[2]))[n],
                           get_pixel(trace[k].output, c[1], c[2])[n])
        /\ (k >= 2 /\ trace[k].closure = "into" /\ trace[k - 1].closure = "from") =>
              trace[k].output = trace[k - 1].input
        /\ (k >= 2 /\ trace[k].closure = "from" /\ trace[k - 1].closure = "into") =>
              \A c \in pixels(trace[k].output) : \A n \in 1..4 :
                  LET v == channels(index(trace[k - 1].input, c[1], c[2]))[n]
                      w == channels(index(trace[k].output, c[1], c[2]))[n]
                  IN  is_multiple_of_255th(v) => f_le(f_abs(f_sub(v, w)), frac(1, 256))
        /\ (k >= 3 /\ trace[k].closure = "from" /\ trace[k - 2].closure = "from") =>
              trace[k].output = trace[k - 2].output

C18_Witness ==
    /\ calls = <<"into", "from", "into", "from">>
    /\ trace[1].input = from_pixel(1, 1, Rgba(f64(1), f64(0), f64(1), f64(1)))
    /\ trace[1].output.data = <<<<255, 0, 255, 255>>>>
    /\ image = from_pixel(1, 1, Rgba(frac(255, 256), f64(0), frac(255, 256), frac(255, 256)))
    /\ trace[4].output = trace[2].output

\* C19 as claimed: a raster built from a flat buffer gives its pixels back in
\* the order the buffer held them, through Into<RgbaImage> and through
\* into_rgba8 alike.
C19_SameOrderEverywhere ==
    \A k \in 2..Len(trace) :
        (trace[k - 1].closure = "from" /\ trace[k].closure \in {"into", "into_rgba8"}) =>
            trace[k].output.data = trace[k - 1].input.data

same_size(a, b) == width(a) = width(b) /\ height(a) = height(b)

\* C20: every raster handed from one step to the next, and the raster apply
\* returns, has the width and height of the raster apply was given; a raster
\* an operand pipeline returns has them too.
C20_DimensionsNeverChange ==
    /\ \A k \in 1..Len(trace) :
          /\ same_size(trace[k].input, image)
          /\ same_size(trace[k].output, image)
          /\ closure_of(k).op \in {"add", "sub", "ennoise"} =>
                same_size(apply(closure_of(k).other, trace[k].input), image)
    /\ pc = "apply" => same_size(acc, image)
    /\ pc = "done" => same_size(result, image)

C20_Witness ==
    /\ pc = "done"
    /\ calls = <<"filter", "canny">>
    /\ image = black(2, 3)
    /\ actions[1].op = "convolve" /\ actions[1].needle_width = 3
    /\ width(result) = 2 /\ height(result) = 3

\* C21: apply on a pipeline with no steps returns a raster equal to the one
\* it was given, pixel for pixel, without calling anything; the raster it was
\* given is the same before and after.
C21_EmptyPipelineIsIdentity ==
    [][/\ image' = image
       /\ (pc = "apply" /\ pc' = "done" /\ actions = default) =>
             /\ result' = image
             /\ same_size(result', image)
             /\ trace' = << >>
             /\ apply(actions, image) = image]_vars

C21_Witness ==
    /\ pc = "done"
    /\ actions = default
    /\ width(image) = MaxW /\ height(image) = MaxH
    /\ index(image, 0, 0) = GREEN /\ index(image, 1, 0) = BLUE
    /\ result = image

\* the pixel values salt and pepper noise may take
SaltPepperGrays == {gray(f64(0)), gray(frac(1, 2)), gray(f64(1))}

is_salt_and_pepper(noise, input) ==
    /\ same_size(noise, input)
    /\ \A c \in pixels(noise) : index(noise, c[1], c[2]) \in SaltPepperGrays

\* C22: the raster salt_and_pepper_noise yields, applied on its own or as the
\* noise of ennoise, has the dimensions of its input and every pixel is an
\* opaque gray of value 0.0, 0.5 or 1.0, whatever was drawn and whatever the
\* input holds.
C22_NoiseIsSaltPepperOrGray ==
    \A k \in 1..Len(trace) :
        /\ closure_of(k).op = "salt_and_pepper" =>
              /\ is_salt_and_pepper(trace[k].output, trace[k].input)
              /\ \A c \in pixels(trace[k].output) :
                    alpha(index(trace[k].output, c[1], c[2])) = f64(1)
        /\ (closure_of(k).op = "ennoise"
              /\ Len(closure_of(k).other) = 1
              /\ closure_of(k).other[1].op = "salt_and_pepper") =>
              is_salt_and_pepper(apply(closure_of(k).other, trace[k].input), trace[k].input)

C22_Witness ==
    /\ pc = "done"
    /\ calls = <<"salt_and_pepper_noise">>
    /\ actions[1].pdf.sigma = frac(1, 2)
    /\ actions[1].draws = <<<<32, FALSE>>, <<225>>, <<128, TRUE>>, <<0>>>>
    /\ image = Grid(2, 2)
    /\ result = <<<<gray(f64(0)), gray(frac(1, 2))>>, <<gray(f64(1)), gray(frac(1, 2))>>>>

\* the kernel sizes of the blurs declared so far
kernel_sizes ==
    {actions[k].needle_width : k \in {j \in 1..Len(actions) : actions[j].op = "convolve"}}

\* C23 as claimed: the kernel of every blur declared from an entered size has
\* an odd size, and the GTK Gaussian-blur handler never fails its assertion.
C23_KernelSizeIsOdd ==
    /\ \A size \in kernel_sizes : size % 2 = 1
    /\ ~(pc = "panic" /\ calls = <<"gaussian_blur">>)

\* C24: a canny pipeline with a non-empty threshold list never aborts: no
\* closure of it indexes outside the raster or asks its needle for a cell
\* outside the needle, every intensity that reaches quantize is at least 0
\* and so meets the 0.0 sentinel, and the fold reaches its end.
C24_CannyNeverAborts ==
    /\ pc # "panic"
    /\ (calls = <<"canny">> /\ pc = "apply" /\ pending # << >>) =>
          LET f == next_action(pending)
          IN  /\ ~index_panics(f, acc)
              /\ f.op = "convolve" =>
                    \A q \in needle_queries(f) : q[1] < f.needle_width /\ q[2] < f.needle_height
              /\ is_gradient(f) => needle_queries(f) \subseteq (0..2) \X (0..2)
              /\ f.op = "quantize" =>
                    /\ \A c \in pixels(acc) :
                          /\ f_le(f64(0), intensity(index(acc, c[1], c[2])))
                          /\ Len(f.steps) \in matching(f.steps, intensity(index(acc, c[1], c[2])))
                    /\ ~quantize_panics(f, acc)
              /\ ~call_panics(f, acc)
    /\ (calls = <<"canny">> /\ pc \in {"apply", "done"}) => ~apply_panics(actions, image)

C24_Witness ==
    /\ pc = "done"
    /\ calls = <<"canny">>
    /\ Len(trace) = Len(actions)
    /\ image = Shade(MaxW, MaxH)
    /\ same_size(result, image)
    /\ \E c \in pixels(result) : index(result, c[1], c[2]) # BLACK

\* the threads that are computing or writing the temporary file
busy(f) == {w \in Workers : f.worker[w] \in {"calculating", "saving"}}

\* C25 as claimed: whenever the stack's visible child is switched from the
\* spinner back to "image", no thread is computing or writing the temporary
\* file.
C25_SpinnerWhileCalculating ==
    [][(frontend.stack = "spinner" /\ frontend'.stack = "image") => busy(frontend') = {}]_vars

====
